---- MODULE Spec2Model ----
(***************************************************************************)
(* Session lifecycle, interrupt/resume protocol and TTL-backed session     *)
(* store of NexusAgent (src/routes/agent.py, src/utils/redis_manager.py).  *)
(*                                                                         *)
(* Every HTTP handler is a process occupying one request slot.  A handler  *)
(* is cut into steps at its awaits on the shared stores: session_id_exists,*)
(* create_session, the read half and the write half of update_session,     *)
(* get_session, delete_session and the AgentRuntime call are separate      *)
(* steps, so that other requests and key expiry can come between them.     *)
(* The long-term-memory lookup at the head of invoke_agent touches neither *)
(* store and is left out.                                                  *)
(* RedisSessionManager is also driven directly, one call at a time, to     *)
(* check the contract of its methods on their own (SpecStore).             *)
(***************************************************************************)
EXTENDS Integers, Sequences, FiniteSets, TLC

\* ---------------------------------------------------------------- bounds
MaxClock == 1        \* time.time() ranges over 0..MaxClock
MaxInterrupts == 2   \* an AgentRuntime outcome lists 0..MaxInterrupts interrupts
MaxDepth == 3        \* frames of check_and_restore_session the client's stack holds

\* ------------------------------------------------------ program constants
TTL == 3600              \* ConfigRedis.TTL (default of REDIS_TTL)
SESSION_TIMEOUT == 300   \* ConfigRedis.SESSION_TIMEOUT (default)

Users == {"u1", "u2"}
Sessions == {"s1", "s2"}
Queries == {"q1"}
Reqs == {"r1", "r2"}   \* request slots: requests that may be in flight together
InterruptIds == 1..MaxInterrupts
DecisionTypes == {"approve", "reject", "edit", "response"}
DefaultAllowed == {"approve", "reject", "edit"}
AllowedSets == {DefaultAllowed}

\* Optional[T]: None is the empty sequence, a present value x is <<x>>.
None == <<>>
Some(x) == <<x>>
IsNone(o) == o = <<>>
Val(o) == o[1]

VARIABLES store, index, now, pc, rq, loc, result

vars == <<store, index, now, pc, rq, loc, result>>

Key(u, s) == <<u, s>>
Keys == Users \X Sessions
ReqKey(r) == Key(rq[r].user_id, rq[r].session_id)

\* ------------------------------------------------------------ Redis keys
\* The key space session:{user_id}:{session_id}: an absent (never written,
\* deleted or expired) key holds None, a live key holds Some(record).
\* SET key value EX ttl
SetKey(st, k, rec) == [st EXCEPT ![k] = Some(rec)]
\* DEL key
DelKey(st, k) == [st EXCEPT ![k] = None]
\* EXISTS key
KeyExists(st, k) == st[k] # None

\* ------------------------------------------------------ AgentResponse
AgentResponse(session_id, status, message, res, interrupt_data) ==
    [session_id |-> session_id, status |-> status, message |-> message,
     result |-> res, interrupt_data |-> interrupt_data]

\* ------------------------------------------------ AgentRuntime outcomes
\* A pending interrupt: its id and the decisions its tool allows.
Interrupt(i, allowed) == [id |-> i, allowed_decisions |-> allowed]
InterruptLists ==
    UNION {[1..n -> AllowedSets] : n \in 0..MaxInterrupts}
MkInterrupts(f) == [i \in DOMAIN f |-> Interrupt(i, f[i])]
Outcomes ==
    {[kind |-> "result", interrupts |-> <<>>],
     [kind |-> "raise", interrupts |-> <<>>]}
    \cup {[kind |-> "interrupt", interrupts |-> MkInterrupts(f)] : f \in InterruptLists}

\* the marker test by truth value: an empty list counts as no marker
has_interrupt_nonempty(outcome) ==
    outcome.kind = "interrupt" /\ Len(outcome.interrupts) > 0

\* line 42: "__interrupt__" in result (the key is there, the list may be empty)
has_interrupt(outcome) == outcome.kind = "interrupt"

\* process_agent_result without the single-interrupt branch of lines 68-81
process_agent_result_one_lost(session_id, outcome) ==
    IF outcome.kind = "interrupt" /\ Len(outcome.interrupts) > 1
    THEN AgentResponse(session_id, "interrupted", None, None,
             Some([multiple_interrupts |-> TRUE,
                   interrupts |-> outcome.interrupts]))
    ELSE AgentResponse(session_id, "completed", None, Some("result"), None)

\* process_agent_result, lines 39-96: classification of the outcome.
\* An "__interrupt__" marker with an empty list makes interrupts[0] raise
\* IndexError, which the except branch turns into an error response.
process_agent_result(session_id, outcome) ==
    IF has_interrupt(outcome)
    THEN IF Len(outcome.interrupts) > 1
         THEN AgentResponse(session_id, "interrupted", None, None,
                  Some([multiple_interrupts |-> TRUE,
                        interrupts |-> outcome.interrupts]))
         ELSE IF Len(outcome.interrupts) = 1
              THEN AgentResponse(session_id, "interrupted", None, None,
                       Some([multiple_interrupts |-> FALSE,
                             interrupts |-> outcome.interrupts]))
              ELSE AgentResponse(session_id, "error",
                       Some("process_result_error"), None, None)
    ELSE AgentResponse(session_id, "completed", None, Some("result"), None)

\* the except branches of invoke_agent / resume_agent
error_response(session_id, op) ==
    AgentResponse(session_id, "error",
        Some(IF op = "invoke" THEN "invoke_error" ELSE "resume_error"), None, None)

\* ------------------------------------------------- RedisSessionManager
\* cleanup_user_sessions: drop from the user's index every id whose record
\* key no longer exists (an empty set is a deleted key).
cleanup_user_sessions(st, ix, u) ==
    [ix EXCEPT ![u] = {s \in ix[u] : KeyExists(st, Key(u, s))}]

\* effective_ttl that ignores the ttl of the caller
effective_ttl_default(ttl) == SESSION_TIMEOUT

\* lines 95, 159: ttl if ttl is not None else self.session_timeout
effective_ttl(ttl) == IF IsNone(ttl) THEN SESSION_TIMEOUT ELSE Val(ttl)

\* create_session: the record written by SET ... EX effective_ttl.  ttl is
\* the lifetime the write gives the key; a last_updated of None stands for
\* the "0:00:00" value create_session substitutes when none is supplied.
session_data(session_id, status, last_query, last_response, last_updated, ttl) ==
    [session_id |-> session_id, status |-> status,
     last_response |-> last_response, last_query |-> last_query,
     last_updated |-> last_updated, ttl |-> effective_ttl(ttl)]

\* updated_data that stores last_query as given, None included
updated_data_query_stored(current_data, status, last_query, last_response, last_updated, ttl) ==
    [session_id |-> current_data.session_id,
     status |-> IF IsNone(status) THEN current_data.status ELSE Val(status),
     last_response |-> IF IsNone(last_response) THEN current_data.last_response
                       ELSE last_response,
     last_query |-> last_query,
     last_updated |-> IF IsNone(last_updated) THEN current_data.last_updated
                      ELSE last_updated,
     ttl |-> effective_ttl(ttl)]

\* update_session, lines 146-157: a None argument leaves the field as read.
updated_data(current_data, status, last_query, last_response, last_updated, ttl) ==
    [session_id |-> current_data.session_id,
     status |-> IF IsNone(status) THEN current_data.status ELSE Val(status),
     last_response |-> IF IsNone(last_response) THEN current_data.last_response
                       ELSE last_response,
     last_query |-> IF IsNone(last_query) THEN current_data.last_query
                    ELSE last_query,
     last_updated |-> IF IsNone(last_updated) THEN current_data.last_updated
                      ELSE last_updated,
     ttl |-> effective_ttl(ttl)]

\* get_session, lines 182-199: GET and json.loads give the stored dict (the
\* expiry is a property of the key, not a field of the dict); a
\* last_response that AgentResponse(**d) cannot rebuild becomes None.
parse_last_response(o) ==
    IF IsNone(o) THEN None
    ELSE IF {"session_id", "status"} \subseteq DOMAIN Val(o) THEN o ELSE None

\* get_session whose rebuild of last_response fails every time
get_session_response_lost(st, k) ==
    IF ~KeyExists(st, k) THEN None
    ELSE LET session == Val(st[k])
         IN  Some([session_id |-> session.session_id,
                   status |-> session.status,
                   last_response |-> None,
                   last_query |-> session.last_query,
                   last_updated |-> session.last_updated])

get_session(st, k) ==
    IF ~KeyExists(st, k) THEN None
    ELSE LET session == Val(st[k])
         IN  Some([session_id |-> session.session_id,
                   status |-> session.status,
                   last_response |-> parse_last_response(session.last_response),
                   last_query |-> session.last_query,
                   last_updated |-> session.last_updated])

\* ------------------------------------------------------- request slots
\* rq: the request body.  loc: the handler's local variables, plus two
\* counters of what the request has done so far (AgentRuntime calls and
\* create_session calls).  session and command are dropped one step after
\* the AgentRuntime call, where the handler no longer reads them.
NoRq == [op |-> "none", user_id |-> "u1", session_id |-> "s1", query |-> None]
NoLoc == [session |-> None, current_data |-> None,
          last_updated |-> 0, outcome |-> None, response |-> None,
          command |-> None, called |-> 0, created |-> 0]

AgentReply(resp) == [kind |-> "AgentResponse", status_code |-> 200, body |-> Some(resp)]
HTTPException(code) == [kind |-> "HTTPException", status_code |-> code, body |-> None]
\* an exception no handler catches: the framework answers 500
Unhandled == [kind |-> "Unhandled", status_code |-> 500, body |-> None]

StatusOf(st, k) == IF KeyExists(st, k) THEN Val(st[k]).status ELSE "not_found"

Init ==
    /\ store = [k \in Keys |-> None]
    /\ index = [u \in Users |-> {}]
    /\ now = 0
    /\ pc = [r \in Reqs |-> "idle"]
    /\ rq = [r \in Reqs |-> NoRq]
    /\ loc = [r \in Reqs |-> NoLoc]
    /\ result = [r \in Reqs |-> None]

Goto(r, label) == pc' = [pc EXCEPT ![r] = label]
Finish(r, res) ==
    /\ pc' = [pc EXCEPT ![r] = "done"]
    /\ result' = [result EXCEPT ![r] = Some(res)]

\* ------------------------------------------------------------ arrivals
InvokeRequest(r, K) ==
    /\ pc[r] = "idle"
    /\ \E k \in K, q \in Queries :
         rq' = [rq EXCEPT ![r] = [op |-> "invoke", user_id |-> k[1],
                                  session_id |-> k[2], query |-> Some(q)]]
    /\ Goto(r, "invoke_exists")
    /\ UNCHANGED <<store, index, now, loc, result>>

ResumeRequest(r, K) ==
    /\ pc[r] = "idle"
    /\ \E k \in K :
         rq' = [rq EXCEPT ![r] = [op |-> "resume", user_id |-> k[1],
                                  session_id |-> k[2], query |-> None]]
    /\ Goto(r, "resume_exists")
    /\ UNCHANGED <<store, index, now, loc, result>>

DeleteRequest(r, K) ==
    /\ pc[r] = "idle"
    /\ \E k \in K :
         rq' = [rq EXCEPT ![r] = [op |-> "delete", user_id |-> k[1],
                                  session_id |-> k[2], query |-> None]]
    /\ Goto(r, "delete_exists")
    /\ UNCHANGED <<store, index, now, loc, result>>

StatusRequest(r, K) ==
    /\ pc[r] = "idle"
    /\ \E k \in K :
         rq' = [rq EXCEPT ![r] = [op |-> "status", user_id |-> k[1],
                                  session_id |-> k[2], query |-> None]]
    /\ Goto(r, "status_exists")
    /\ UNCHANGED <<store, index, now, loc, result>>

\* the response has been sent: the slot is free again
Return(r) ==
    /\ pc[r] = "done"
    /\ pc' = [pc EXCEPT ![r] = "idle"]
    /\ rq' = [rq EXCEPT ![r] = NoRq]
    /\ loc' = [loc EXCEPT ![r] = NoLoc]
    /\ result' = [result EXCEPT ![r] = None]
    /\ UNCHANGED <<store, index, now>>

\* ------------------------------------------- session_id_exists (shared)
\* cleanup_user_sessions(user_id), then EXISTS on the record key.
session_id_exists(r, ifTrue, ifFalse) ==
    /\ index' = cleanup_user_sessions(store, index, rq[r].user_id)
    /\ IF KeyExists(store, ReqKey(r)) THEN ifTrue ELSE ifFalse

\* --------------------------------------------- update_session (shared)
\* First half: the caller takes time.time(), then update_session does
\* EXISTS and get_session.  A missing record makes it return False.
update_read(r, ifFound, ifMissing) ==
    /\ IF KeyExists(store, ReqKey(r))
       THEN /\ loc' = [loc EXCEPT ![r].current_data = store[ReqKey(r)],
                                  ![r].last_updated = now,
                                  ![r].session =
                                      IF loc[r].called = 0 THEN @ ELSE None,
                                  ![r].command = None]
            /\ ifFound
       ELSE /\ loc' = [loc EXCEPT ![r].current_data = None,
                                  ![r].last_updated = now,
                                  ![r].session =
                                      IF loc[r].called = 0 THEN @ ELSE None,
                                  ![r].command = None]
            /\ ifMissing
    /\ UNCHANGED <<store, index, now, rq>>

\* update_write that modifies the record as it is at the time of the write
update_write_in_place(r, status, last_query, last_response) ==
    /\ store' = SetKey(store, ReqKey(r),
                    updated_data(IF KeyExists(store, ReqKey(r))
                                 THEN Val(store[ReqKey(r)])
                                 ELSE Val(loc[r].current_data),
                                 status, last_query,
                                 last_response, Some(loc[r].last_updated),
                                 Some(TTL)))
    /\ loc' = [loc EXCEPT ![r].current_data = None]
    /\ UNCHANGED <<index, now, rq>>

\* Second half: SET of the modified copy with a fresh expiry.
update_write(r, status, last_query, last_response) ==
    /\ store' = SetKey(store, ReqKey(r),
                    updated_data(Val(loc[r].current_data), status, last_query,
                                 last_response, Some(loc[r].last_updated),
                                 Some(TTL)))
    /\ loc' = [loc EXCEPT ![r].current_data = None]
    /\ UNCHANGED <<index, now, rq>>

\* --------------------------------------------------------- invoke_agent
\* lines 152-153
invoke_exists(r) ==
    /\ pc[r] = "invoke_exists"
    /\ session_id_exists(r, Goto(r, "invoke_running_read"), Goto(r, "invoke_create"))
    /\ UNCHANGED <<store, now, rq, loc, result>>

\* invoke_create without the SADD of create_session line 114
invoke_create_unindexed(r) ==
    /\ pc[r] = "invoke_create"
    /\ store' = SetKey(store, ReqKey(r),
                    session_data(rq[r].session_id, "idle", None, None,
                                 Some(now), Some(TTL)))
    /\ loc' = [loc EXCEPT ![r].created = @ + 1]
    /\ Goto(r, "invoke_running_read")
    /\ UNCHANGED <<index, now, rq, result>>

\* lines 156-170: create_session(status="idle", ..., last_updated=time.time(), ttl=TTL)
invoke_create(r) ==
    /\ pc[r] = "invoke_create"
    /\ store' = SetKey(store, ReqKey(r),
                    session_data(rq[r].session_id, "idle", None, None,
                                 Some(now), Some(TTL)))
    /\ index' = [index EXCEPT ![rq[r].user_id] = @ \cup {rq[r].session_id}]
    /\ loc' = [loc EXCEPT ![r].created = @ + 1]
    /\ Goto(r, "invoke_running_read")
    /\ UNCHANGED <<now, rq, result>>

\* lines 172-186: update_session(status="running", last_query=query, last_response=None)
invoke_running_read(r) ==
    /\ pc[r] = "invoke_running_read"
    /\ update_read(r, Goto(r, "invoke_running_write"), Goto(r, "invoke_call"))
    /\ UNCHANGED result

\* invoke_running_write without status="running" (line 173)
invoke_running_write_status_kept(r) ==
    /\ pc[r] = "invoke_running_write"
    /\ update_write(r, None, rq[r].query, None)
    /\ Goto(r, "invoke_call")
    /\ UNCHANGED result

invoke_running_write(r) ==
    /\ pc[r] = "invoke_running_write"
    /\ update_write(r, Some("running"), rq[r].query, None)
    /\ Goto(r, "invoke_call")
    /\ UNCHANGED result

\* agent_returns that leaves no trace of the call having been made
agent_returns_uncounted(r, command, o) ==
    /\ loc' = [loc EXCEPT ![r].command = command,
                          ![r].outcome = Some(o),
                          ![r].response =
                              Some(IF o.kind = "raise"
                                   THEN error_response(rq[r].session_id, rq[r].op)
                                   ELSE process_agent_result(rq[r].session_id, o))]
    /\ Goto(r, IF o.kind = "raise" THEN "error_read" ELSE "result_exists")

\* The AgentRuntime call returns or raises; a returned outcome is classified
\* by process_agent_result, a raised one goes to the except branch.
agent_returns(r, command, o) ==
    /\ loc' = [loc EXCEPT ![r].called = @ + 1,
                          ![r].command = command,
                          ![r].outcome = Some(o),
                          ![r].response =
                              Some(IF o.kind = "raise"
                                   THEN error_response(rq[r].session_id, rq[r].op)
                                   ELSE process_agent_result(rq[r].session_id, o))]
    /\ Goto(r, IF o.kind = "raise" THEN "error_read" ELSE "result_exists")

\* lines 196, 291, 305, 318: config={"configurable": {"thread_id": session_id}},
\* the checkpointer thread an AgentRuntime call of (user_id, session_id)
\* reads and extends
thread_id(user_id, session_id) == session_id

\* lines 194-206: agent.ainvoke(messages, thread_id=session_id)
invoke_call(r, Outs) ==
    /\ pc[r] = "invoke_call"
    /\ \E o \in Outs : agent_returns(r, None, o)
    /\ UNCHANGED <<store, index, now, rq, result>>

\* --------------------------------------------------------- resume_agent
\* resume_exists without the 404 of lines 254-257
resume_exists_unchecked(r) ==
    /\ pc[r] = "resume_exists"
    /\ session_id_exists(r, Goto(r, "resume_get"), Goto(r, "resume_running_read"))
    /\ UNCHANGED <<store, now, rq, loc, result>>

\* lines 251-257
resume_exists(r) ==
    /\ pc[r] = "resume_exists"
    /\ session_id_exists(r,
           /\ Goto(r, "resume_get")
           /\ UNCHANGED result,
           Finish(r, HTTPException(404)))
    /\ UNCHANGED <<store, now, rq, loc>>

\* resume_get without the status test of lines 262-265
resume_get_unchecked(r) ==
    /\ pc[r] = "resume_get"
    /\ loc' = [loc EXCEPT ![r].session = store[ReqKey(r)]]
    /\ IF ~KeyExists(store, ReqKey(r))
       THEN Finish(r, Unhandled)
       ELSE Goto(r, "resume_running_read") /\ UNCHANGED result
    /\ UNCHANGED <<store, index, now, rq>>

\* lines 259-265: get_session, then the status test.  A record that vanished
\* since the existence test makes session.get raise outside any try block.
resume_get(r) ==
    /\ pc[r] = "resume_get"
    /\ loc' = [loc EXCEPT ![r].session = store[ReqKey(r)]]
    /\ IF ~KeyExists(store, ReqKey(r))
       THEN Finish(r, Unhandled)
       ELSE IF Val(store[ReqKey(r)]).status # "interrupted"
            THEN Finish(r, HTTPException(400))
            ELSE Goto(r, "resume_running_read") /\ UNCHANGED result
    /\ UNCHANGED <<store, index, now, rq>>

\* lines 267-281: update_session(status="running", last_query=None, last_response=None)
resume_running_read(r) ==
    /\ pc[r] = "resume_running_read"
    /\ update_read(r, Goto(r, "resume_running_write"), Goto(r, "resume_call"))
    /\ UNCHANGED result

\* resume_running_write without status="running" (line 268)
resume_running_write_status_kept(r) ==
    /\ pc[r] = "resume_running_write"
    /\ update_write(r, None, None, None)
    /\ Goto(r, "resume_call")
    /\ UNCHANGED result

resume_running_write(r) ==
    /\ pc[r] = "resume_running_write"
    /\ update_write(r, Some("running"), None, None)
    /\ Goto(r, "resume_call")
    /\ UNCHANGED result

\* InterruptResponse: the fields resume_agent reads at lines 285-313
\* interrupt_responses: a decision for each id of some subset of the ids,
\* at most one of them other than "approve"
ResponseMaps ==
    {m \in UNION {[S -> DecisionTypes] : S \in SUBSET InterruptIds} :
        Cardinality({i \in DOMAIN m : m[i] # "approve"}) <= 1}
InterruptResponses ==
    [response_type : DecisionTypes,
     interrupt_id : {None} \cup {Some(i) : i \in InterruptIds},
     interrupt_responses : {None} \cup {Some(m) : m \in ResponseMaps}]

\* command_data carrying only the first decision of a batch
command_data_first_only(response) ==
    IF ~IsNone(response.interrupt_responses)
       /\ DOMAIN Val(response.interrupt_responses) # {}
    THEN LET m == Val(response.interrupt_responses)
             first == CHOOSE i \in DOMAIN m : \A j \in DOMAIN m : i <= j
         IN  [form |-> "map", decisions |-> [i \in {first} |-> m[i]]]
    ELSE IF ~IsNone(response.interrupt_id)
         THEN [form |-> "map",
               decisions |-> [i \in {Val(response.interrupt_id)} |->
                                  response.response_type]]
         ELSE [form |-> "bare", type |-> response.response_type]

\* lines 285-319: the resume payload.  An empty map and None are both falsy.
command_data(response) ==
    IF ~IsNone(response.interrupt_responses)
       /\ DOMAIN Val(response.interrupt_responses) # {}
    THEN [form |-> "map", decisions |-> Val(response.interrupt_responses)]
    ELSE IF ~IsNone(response.interrupt_id)
         THEN [form |-> "map",
               decisions |-> [i \in {Val(response.interrupt_id)} |->
                                  response.response_type]]
         ELSE [form |-> "bare", type |-> response.response_type]

\* lines 283-328: agent.ainvoke(Command(resume=command_data), thread_id=session_id)
resume_call(r, Bodies, Outs) ==
    /\ pc[r] = "resume_call"
    /\ \E response \in Bodies, o \in Outs :
         agent_returns(r, Some(command_data(response)), o)
    /\ UNCHANGED <<store, index, now, rq, result>>

\* ------------------------------------- process_agent_result, lines 98-116
\* result_exists testing the record key without cleanup_user_sessions
result_exists_uncleaned(r) ==
    /\ pc[r] = "result_exists"
    /\ index' = index
    /\ IF KeyExists(store, ReqKey(r))
       THEN Goto(r, "result_read") /\ UNCHANGED result
       ELSE Finish(r, AgentReply(Val(loc[r].response)))
    /\ loc' = [loc EXCEPT ![r].command = None, ![r].session = None]
    /\ UNCHANGED <<store, now, rq>>

\* process_agent_result lines 98-99: session_id_exists before the update
result_exists(r) ==
    /\ pc[r] = "result_exists"
    /\ session_id_exists(r,
           /\ Goto(r, "result_read")
           /\ UNCHANGED result,
           Finish(r, AgentReply(Val(loc[r].response))))
    /\ loc' = [loc EXCEPT ![r].command = None, ![r].session = None]
    /\ UNCHANGED <<store, now, rq>>

\* result_read returning the response without the write of lines 105-113
result_read_unwritten(r) ==
    /\ pc[r] = "result_read"
    /\ update_read(r,
           Finish(r, AgentReply(Val(loc[r].response))),
           Finish(r, AgentReply(Val(loc[r].response))))

\* update_session(status=response.status, last_query=None, last_response=response)
result_read(r) ==
    /\ pc[r] = "result_read"
    /\ update_read(r,
           /\ Goto(r, "result_write")
           /\ UNCHANGED result,
           Finish(r, AgentReply(Val(loc[r].response))))

\* result_write without last_response=response (line 111)
result_write_response_kept(r) ==
    /\ pc[r] = "result_write"
    /\ update_write(r, Some(Val(loc[r].response).status), None, None)
    /\ Finish(r, AgentReply(Val(loc[r].response)))

result_write(r) ==
    /\ pc[r] = "result_write"
    /\ update_write(r, Some(Val(loc[r].response).status), None, loc[r].response)
    /\ Finish(r, AgentReply(Val(loc[r].response)))

\* ------------------- except branch of invoke_agent (208-233) / resume_agent (330-355)
\* update_session(status="error", last_query=None, last_response=error_response)
error_read(r) ==
    /\ pc[r] = "error_read"
    /\ update_read(r,
           /\ Goto(r, "error_write")
           /\ UNCHANGED result,
           Finish(r, AgentReply(Val(loc[r].response))))

\* error_write without status="error" (lines 218, 340)
error_write_status_kept(r) ==
    /\ pc[r] = "error_write"
    /\ update_write(r, None, None, loc[r].response)
    /\ Finish(r, AgentReply(Val(loc[r].response)))

error_write(r) ==
    /\ pc[r] = "error_write"
    /\ update_write(r, Some("error"), None, loc[r].response)
    /\ Finish(r, AgentReply(Val(loc[r].response)))

\* ----------------------------------------------------- get_agent_status
SessionStatusResponse(user_id, session_id, status, message, last_query, last_updated, last_response) ==
    [kind |-> "SessionStatusResponse", status_code |-> 200,
     body |-> Some([user_id |-> user_id, session_id |-> session_id,
                    status |-> status, message |-> message,
                    last_query |-> last_query, last_updated |-> last_updated,
                    last_response |-> last_response])]

\* status_exists answering an absent session with HTTP 404
status_exists_404(r) ==
    /\ pc[r] = "status_exists"
    /\ session_id_exists(r,
           /\ Goto(r, "status_get")
           /\ UNCHANGED result,
           Finish(r, HTTPException(404)))
    /\ UNCHANGED <<store, now, rq, loc>>

\* lines 372-381
status_exists(r) ==
    /\ pc[r] = "status_exists"
    /\ session_id_exists(r,
           /\ Goto(r, "status_get")
           /\ UNCHANGED result,
           Finish(r, SessionStatusResponse(rq[r].user_id, rq[r].session_id,
                         "not_found", Some("not_found"), None, None, None)))
    /\ UNCHANGED <<store, now, rq, loc>>

\* lines 384-394.  session.get on a record that vanished since the
\* existence test, and a last_updated of "0:00:00" given to the float
\* field of SessionStatusResponse, raise outside any try block.
status_get(r) ==
    /\ pc[r] = "status_get"
    /\ LET session == get_session(store, ReqKey(r))
       IN  IF IsNone(session) \/ IsNone(Val(session).last_updated)
           THEN Finish(r, Unhandled)
           ELSE Finish(r, SessionStatusResponse(rq[r].user_id, rq[r].session_id,
                              Val(session).status, None,
                              Val(session).last_query,
                              Val(session).last_updated,
                              Val(session).last_response))
    /\ UNCHANGED <<store, index, now, rq, loc>>

\* ------------------------------------------------- delete_agent_session
\* lines 465-471
delete_exists(r) ==
    /\ pc[r] = "delete_exists"
    /\ session_id_exists(r,
           /\ Goto(r, "delete_session")
           /\ UNCHANGED result,
           Finish(r, HTTPException(404)))
    /\ UNCHANGED <<store, now, rq, loc>>

\* delete_session without the SREM of redis_manager.py line 372
delete_session_unindexed(r) ==
    /\ pc[r] = "delete_session"
    /\ store' = DelKey(store, ReqKey(r))
    /\ Finish(r, [kind |-> "dict", status_code |-> 200, body |-> None])
    /\ UNCHANGED <<index, now, rq, loc>>

\* lines 473-480 and RedisSessionManager.delete_session: SREM, then DEL
delete_session(r) ==
    /\ pc[r] = "delete_session"
    /\ index' = [index EXCEPT ![rq[r].user_id] = @ \ {rq[r].session_id}]
    /\ store' = DelKey(store, ReqKey(r))
    /\ Finish(r, [kind |-> "dict", status_code |-> 200, body |-> None])
    /\ UNCHANGED <<now, rq, loc>>

\* frontend_main.delete_agent_session, lines 195-203: what the command-line
\* client makes of the answer to DELETE /agent/session
frontend_delete_agent_session(response) ==
    IF response.status_code = 200
    THEN [raised |-> FALSE, status |-> "success", message |-> "deleted"]
    ELSE IF response.status_code = 404
         THEN [raised |-> FALSE, status |-> "success", message |-> "absent"]
         ELSE [raised |-> TRUE, status |-> "error", message |-> "failed"]

\* ------------------------------------------------------- store failures
\* The Redis call a handler is about to make raises (connection lost); the
\* call has no effect.  redis_manager.py catches nothing around its Redis
\* calls, so the exception reaches the handler:
\*  - before the try block of invoke_agent / resume_agent (lines 152-186,
\*    251-281) and in delete_agent_session nothing catches it;
\*  - in process_agent_result (lines 99-114), called inside the try block,
\*    it is caught by `except Exception` (lines 208, 330), which builds the
\*    error AgentResponse and calls update_session;
\*  - in that update_session (lines 223, 345) nothing catches it.
RedisError == [kind |-> "redis_error", interrupts |-> <<>>]
StoreStepsOutsideTry ==
    {"invoke_exists", "invoke_create", "invoke_running_read",
     "invoke_running_write", "resume_exists", "resume_get",
     "resume_running_read", "resume_running_write",
     "delete_exists", "delete_session"}
StoreStepsInTry == {"result_exists", "result_read", "result_write"}
StoreStepsInExcept == {"error_read", "error_write"}

store_raises(r) ==
    /\ \/ /\ pc[r] \in StoreStepsOutsideTry \cup StoreStepsInExcept
          /\ loc' = [loc EXCEPT ![r].outcome = Some(RedisError),
                                ![r].current_data = None]
          /\ Finish(r, Unhandled)
       \/ /\ pc[r] \in StoreStepsInTry
          /\ loc' = [loc EXCEPT ![r].outcome = Some(RedisError),
                                ![r].current_data = None,
                                ![r].command = None,
                                ![r].session = None,
                                ![r].response =
                                    Some(error_response(rq[r].session_id, rq[r].op))]
          /\ Goto(r, "error_read")
          /\ UNCHANGED result
    /\ UNCHANGED <<store, index, now, rq>>

\* ---------------------------------------------------------- environment
\* the wall clock read by time.time() advances
Tick ==
    /\ now < MaxClock
    /\ now' = now + 1
    /\ UNCHANGED <<store, index, pc, rq, loc, result>>

\* the TTL of a record elapses: Redis drops the key, the index is not told
Expire(k) ==
    /\ KeyExists(store, k)
    /\ store' = DelKey(store, k)
    /\ UNCHANGED <<index, now, pc, rq, loc, result>>

\* ------------------------------- RedisSessionManager called directly
\* cleanup_all_sessions: cleanup_user_sessions for every user_sessions:* key
cleanup_all_sessions(st, ix) ==
    [u \in Users |-> {s \in ix[u] : KeyExists(st, Key(u, s))}]

\* the ids a cleanup takes out of the index (one log line each)
Removed(ix, ix2) == UNION {{Key(u, s) : s \in ix[u] \ ix2[u]} : u \in Users}

\* what a call gave back to its caller
Returned(v, removed) == [kind |-> "returned", value |-> v, removed |-> removed]

\* a call of the manager by slot r: the call with its arguments goes to
\* rq[r], the value it returns to result[r]
Call(r, op, k, args, v, removed) ==
    /\ pc[r] = "idle"
    /\ rq' = [rq EXCEPT ![r] = [op |-> op, user_id |-> k[1],
                                session_id |-> k[2], args |-> args]]
    /\ Finish(r, Returned(v, removed))
    /\ UNCHANGED <<now, loc>>

\* create_session, lines 89-116: SET ... EX effective_ttl, then SADD
call_create_session(r, k, a) ==
    /\ store' = SetKey(store, k,
                    session_data(k[2], a.status, a.last_query, a.last_response,
                                 a.last_updated, a.ttl))
    /\ index' = [index EXCEPT ![k[1]] = @ \cup {k[2]}]
    /\ Call(r, "create_session", k, a, k[2], {})

\* update_session that writes the record when there is none
call_update_session_upsert(r, k, a) ==
    /\ store' = SetKey(store, k,
                    updated_data(IF KeyExists(store, k)
                                 THEN Val(get_session(store, k))
                                 ELSE session_data(k[2], "idle", None, None,
                                                   None, None),
                                 a.status, a.last_query, a.last_response,
                                 a.last_updated, a.ttl))
    /\ Call(r, "update_session", k, a, TRUE, {})
    /\ UNCHANGED index

\* update_session, lines 141-170
call_update_session(r, k, a) ==
    /\ LET current_data == IF KeyExists(store, k) THEN get_session(store, k)
                           ELSE None
       IN  IF IsNone(current_data)
           THEN /\ store' = store
                /\ Call(r, "update_session", k, a, FALSE, {})
           ELSE /\ store' = SetKey(store, k,
                               updated_data(Val(current_data), a.status,
                                   a.last_query, a.last_response,
                                   a.last_updated, a.ttl))
                /\ Call(r, "update_session", k, a, TRUE, {})
    /\ UNCHANGED index

call_get_session(r, k) ==
    /\ Call(r, "get_session", k, None, get_session(store, k), {})
    /\ UNCHANGED <<store, index>>

\* session_id_exists, lines 311-313
call_session_id_exists(r, k) ==
    /\ index' = cleanup_user_sessions(store, index, k[1])
    /\ Call(r, "session_id_exists", k, None, KeyExists(store, k),
            Removed(index, index'))
    /\ UNCHANGED store

\* get_all_session_ids without the cleanup of line 240
call_get_all_session_ids_uncleaned(r, u) ==
    /\ Call(r, "get_all_session_ids", Key(u, "s1"), None, index[u], {})
    /\ UNCHANGED <<store, index>>

\* get_all_session_ids, lines 240-244 (the session_id of the call is unused)
call_get_all_session_ids(r, u) ==
    /\ index' = cleanup_user_sessions(store, index, u)
    /\ Call(r, "get_all_session_ids", Key(u, "s1"), None, index'[u],
            Removed(index, index'))
    /\ UNCHANGED store

\* the orders in which a Redis set may be iterated
Orders(S) ==
    {o \in [1..Cardinality(S) -> S] :
        \A i, j \in 1..Cardinality(S) : i # j => o[i] # o[j]}

\* get_user_active_session_id, lines 214-229: the loop over session_ids
RECURSIVE latest_session(_, _, _, _, _)
latest_session(st, u, session_ids, latest_session_id, latest_timestamp) ==
    IF session_ids = <<>> THEN latest_session_id
    ELSE LET session_id == Head(session_ids)
             session == get_session(st, Key(u, session_id))
         IN  IF IsNone(session)
             THEN latest_session(st, u, Tail(session_ids),
                      latest_session_id, latest_timestamp)
             ELSE LET last_updated == Val(session).last_updated
                  IN  IF IsNone(last_updated)     \* "0:00:00"
                      THEN latest_session(st, u, Tail(session_ids),
                               latest_session_id, latest_timestamp)
                      ELSE IF Val(last_updated) > latest_timestamp
                           THEN latest_session(st, u, Tail(session_ids),
                                    Some(session_id), Val(last_updated))
                           ELSE latest_session(st, u, Tail(session_ids),
                                    latest_session_id, latest_timestamp)

\* get_user_active_session_id that returns the first id it iterates over
call_get_user_active_session_id_first(r, u) ==
    /\ index' = cleanup_user_sessions(store, index, u)
    /\ \E session_ids \in Orders(index'[u]) :
         Call(r, "get_user_active_session_id", Key(u, "s1"), None,
              IF session_ids = <<>> THEN None ELSE Some(Head(session_ids)),
              Removed(index, index'))
    /\ UNCHANGED store

\* get_user_active_session_id, lines 210-229
call_get_user_active_session_id(r, u) ==
    /\ index' = cleanup_user_sessions(store, index, u)
    /\ \E session_ids \in Orders(index'[u]) :
         Call(r, "get_user_active_session_id", Key(u, "s1"), None,
              latest_session(store, u, session_ids, None, -1),
              Removed(index, index'))
    /\ UNCHANGED store

\* get_session_count that counts the members of the index sets
call_get_session_count_indexed(r) ==
    /\ Call(r, "get_session_count", Key("u1", "s1"), None,
            Cardinality({k \in Keys : k[2] \in index[k[1]]}), {})
    /\ UNCHANGED <<store, index>>

\* get_session_count, lines 322-329: cleanup_all_sessions, then one count
\* per session:* key (neither argument of the call is used)
call_get_session_count(r) ==
    /\ index' = cleanup_all_sessions(store, index)
    /\ Call(r, "get_session_count", Key("u1", "s1"), None,
            Cardinality({k \in Keys : KeyExists(store, k)}),
            Removed(index, index'))
    /\ UNCHANGED store

\* delete_session, lines 372-374: SREM, then DEL
call_delete_session(r, k) ==
    /\ index' = [index EXCEPT ![k[1]] = @ \ {k[2]}]
    /\ store' = DelKey(store, k)
    /\ Call(r, "delete_session", k, None, KeyExists(store, k), {})

\* ------------------------------------------- get_agent_active_sessionid
ActiveSessionInfoResponse(active_session_id) ==
    [kind |-> "ActiveSessionInfoResponse", status_code |-> 200,
     body |-> Some([active_session_id |-> active_session_id])]

ActiveRequest(r, U) ==
    /\ pc[r] = "idle"
    /\ \E u \in U :
         rq' = [rq EXCEPT ![r] = [op |-> "active", user_id |-> u,
                                  session_id |-> "s1", query |-> None]]
    /\ Goto(r, "active_exists")
    /\ UNCHANGED <<store, index, now, loc, result>>

\* lines 410-416: user_id_exists (cleanup_user_sessions, then EXISTS on the
\* user's index set, which Redis drops with its last member)
active_exists(r) ==
    /\ pc[r] = "active_exists"
    /\ index' = cleanup_user_sessions(store, index, rq[r].user_id)
    /\ IF index'[rq[r].user_id] # {}
       THEN Goto(r, "active_get") /\ UNCHANGED result
       ELSE Finish(r, ActiveSessionInfoResponse(""))
    /\ UNCHANGED <<store, now, rq, loc>>

\* lines 418-422: get_user_active_session_id, whose result (str | None) is
\* given to the str field of ActiveSessionInfoResponse; None fails the
\* model's validation outside any try block.
active_get(r) ==
    /\ pc[r] = "active_get"
    /\ index' = cleanup_user_sessions(store, index, rq[r].user_id)
    /\ \E session_ids \in Orders(index'[rq[r].user_id]) :
         LET v == latest_session(store, rq[r].user_id, session_ids, None, -1)
         IN  IF IsNone(v)
             THEN Finish(r, Unhandled)
             ELSE Finish(r, ActiveSessionInfoResponse(Val(v)))
    /\ UNCHANGED <<store, now, rq, loc>>

\* ---------------------------------------- resume payload, with its args
\* resume_agent lines 283-319 in full: command_data above leaves out args
\* and keeps only the decision types.  A Python dict is a function from its
\* keys; an absent field is None; an empty dict, an empty string and None
\* are all falsy.
Dict(keys, values) == UNION {[S -> values] : S \in SUBSET keys}
EmptyDict == <<>>
TruthyDict(o) == ~IsNone(o) /\ DOMAIN Val(o) # {}
TruthyStr(o) == ~IsNone(o) /\ Val(o) # ""
ArgDicts == Dict({"type", "args"}, {"reject", "v1"})
EntryDicts == {d \in Dict({"type", "args"}, {"approve", "v1"}) : "type" \in DOMAIN d}
PayloadIds == {"i1", "i2"}
PayloadResponses ==
    [response_type : DecisionTypes,
     args : {None} \cup {Some(d) : d \in ArgDicts},
     interrupt_id : {None, Some("")} \cup {Some(i) : i \in PayloadIds},
     interrupt_responses : {None} \cup {Some(m) : m \in Dict(PayloadIds, EntryDicts)}]

\* {"type": response_type, **(args or {})}: a later key replaces an earlier
Spread(response_type, args) ==
    LET d == IF TruthyDict(args) THEN Val(args) ELSE EmptyDict
    IN  [key \in {"type"} \cup DOMAIN d |->
            IF key \in DOMAIN d THEN d[key] ELSE response_type]

\* Command that tests interrupt_id before interrupt_responses
Command_id_first(response) ==
    IF TruthyStr(response.interrupt_id)
    THEN [form |-> "interrupt_id",
          resume |-> [i \in {Val(response.interrupt_id)} |->
                         Spread(response.response_type, response.args)]]
    ELSE IF TruthyDict(response.interrupt_responses)
         THEN [form |-> "interrupt_responses",
               resume |-> Val(response.interrupt_responses)]
         ELSE [form |-> "legacy",
               resume |-> IF TruthyDict(response.args)
                          THEN [key \in {"type", "args"} |->
                                   IF key = "type" THEN Some(response.response_type)
                                   ELSE response.args]
                          ELSE [key \in {"type"} |-> Some(response.response_type)]]

\* lines 285-319: Command(resume=command_data), by the branch taken.  The
\* values of the legacy dict are wrapped (Some), "args" holding a dict.
Command(response) ==
    IF TruthyDict(response.interrupt_responses)
    THEN [form |-> "interrupt_responses",
          resume |-> Val(response.interrupt_responses)]
    ELSE IF TruthyStr(response.interrupt_id)
         THEN [form |-> "interrupt_id",
               resume |-> [i \in {Val(response.interrupt_id)} |->
                              Spread(response.response_type, response.args)]]
         ELSE [form |-> "legacy",
               resume |-> IF TruthyDict(response.args)
                          THEN [key \in {"type", "args"} |->
                                   IF key = "type" THEN Some(response.response_type)
                                   ELSE response.args]
                          ELSE [key \in {"type"} |-> Some(response.response_type)]]

\* resume_agent builds the payload for a request body
build_Command(r) ==
    /\ \E response \in PayloadResponses :
         Call(r, "Command", Key("u1", "s1"), Some(response), Command(response), {})
    /\ UNCHANGED <<store, index>>

\* ------------------------------------------------ tool approval wrapper
\* utils/tools.py, add_human_in_the_loop.call_tool_with_interrupt, lines
\* 56-115, from the point where interrupt(request) has returned the
\* reviewer's response.  The response is a dict with "type" and possibly
\* "args" (None: no such key); the underlying tool returns or raises.
WrapperTypes == {"accept", "edit", "reject", "response", "approve"}
\* a Python str is written Str(text), a dict as a function on its keys
Str(text) == [str |-> text]
IsStr(v) == DOMAIN v = {"str"}
WrapperArgs == {None, Some(Str("msg")), Some([args |-> "in2"]), Some([other |-> "x"])}
WrapperResponses == [type : WrapperTypes, args : WrapperArgs]
ToolOutput(tool_input) == [output |-> tool_input]
RejectedMessage == Str("rejected")
Raised(executed, error) ==
    [executed |-> executed, raised |-> Some(error), tool_response |-> None]
Returns(executed, tool_response) ==
    [executed |-> executed, raised |-> None, tool_response |-> Some(tool_response)]

\* lines 82-87, 93-97: tool.ainvoke inside try/except; a failure is logged
\* and tool_response stays unassigned, so line 115 raises UnboundLocalError
run_tool(tool_input, tool_raises) ==
    IF tool_raises
    THEN Raised(<<tool_input>>, "UnboundLocalError")
    ELSE Returns(<<tool_input>>, ToolOutput(tool_input))

\* the wrapper running the tool on a response decision as well
call_tool_with_interrupt_response_runs(tool_input, response, tool_raises) ==
    IF response.type = "accept"
    THEN run_tool(tool_input, tool_raises)
    ELSE IF response.type = "edit"
    THEN IF IsNone(response.args) THEN Raised(<<>>, "KeyError")
         ELSE IF IsStr(Val(response.args)) THEN Raised(<<>>, "TypeError")
         ELSE IF "args" \notin DOMAIN Val(response.args) THEN Raised(<<>>, "KeyError")
         ELSE run_tool(Val(response.args)["args"], tool_raises)
    ELSE IF response.type = "reject"
    THEN Returns(<<>>, RejectedMessage)
    ELSE IF response.type = "response"
    THEN run_tool(tool_input, tool_raises)
    ELSE Raised(<<>>, "ValueError")

\* lines 78-115
call_tool_with_interrupt(tool_input, response, tool_raises) ==
    IF response.type = "accept"
    THEN run_tool(tool_input, tool_raises)
    ELSE IF response.type = "edit"
    THEN \* tool_input = response["args"]["args"]
         IF IsNone(response.args) THEN Raised(<<>>, "KeyError")
         ELSE IF IsStr(Val(response.args)) THEN Raised(<<>>, "TypeError")
         ELSE IF "args" \notin DOMAIN Val(response.args) THEN Raised(<<>>, "KeyError")
         ELSE run_tool(Val(response.args)["args"], tool_raises)
    ELSE IF response.type = "reject"
    THEN Returns(<<>>, RejectedMessage)
    ELSE IF response.type = "response"
    THEN \* tool_response = response["args"]
         IF IsNone(response.args) THEN Raised(<<>>, "KeyError")
         ELSE Returns(<<>>, Val(response.args))
    ELSE Raised(<<>>, "ValueError")

\* a tool call reaches the wrapper and the reviewer answers
wrapped_tool_call(r) ==
    /\ \E response \in WrapperResponses, tool_raises \in BOOLEAN :
         Call(r, "call_tool_with_interrupt", Key("u1", "s1"),
              Some([tool_input |-> "in1", response |-> response,
                    tool_raises |-> tool_raises]),
              call_tool_with_interrupt("in1", response, tool_raises), {})
    /\ UNCHANGED <<store, index>>

\* ------------------------------------------- command-line client (main)
\* frontend_main.py.  A slot can also hold the command-line client: rq is
\* main's user_id and session_id, loc the locals of the innermost
\* check_and_restore_session frame and the number of frames on the stack,
\* result what check_and_restore_session returned to main.  The server is
\* whatever it may be: a status query gets any status, or fails.
max_attempts == 30
StatusAnswers ==
    {"not_found", "idle", "running", "interrupted", "completed", "error", "raise"}
ClientLoc ==
    [depth |-> 1, i |-> 0, attempt_count |-> 0, polls |-> 0,
     current_status |-> None, timed_out |-> FALSE]
CheckResult(has_active_session, session_status) ==
    [kind |-> "check", has_active_session |-> has_active_session,
     session_status |-> session_status]

\* main, lines 893-911: the session id main starts with, and the call of
\* check_and_restore_session(user_id, session_id)
main_check(r) ==
    /\ pc[r] = "idle"
    /\ rq' = [rq EXCEPT ![r] = [op |-> "client", user_id |-> "u1",
                                session_id |-> "s1", query |-> None]]
    /\ loc' = [loc EXCEPT ![r] = ClientLoc]
    /\ Goto(r, "check_status")
    /\ UNCHANGED <<store, index, now, result>>

\* check_and_restore_session returns to main through all its frames
check_return(r, has_active_session, session_status) ==
    /\ pc' = [pc EXCEPT ![r] = "main_prompt"]
    /\ result' = [result EXCEPT ![r] =
                      Some(CheckResult(has_active_session, session_status))]

\* lines 302-309 and the branches of lines 326-455 other than running;
\* get_agent_status raises on a non-200 answer, which the except of line 457
\* turns into (False, None)
check_status(r) ==
    /\ pc[r] = "check_status"
    /\ \E status \in StatusAnswers, interrupt_data \in BOOLEAN :
         /\ interrupt_data => status = "interrupted"
         /\ IF status = "running"
            THEN /\ loc' = [loc EXCEPT ![r].i = 0, ![r].attempt_count = 0,
                                       ![r].polls = 0,
                                       ![r].current_status = None]
                 /\ Goto(r, "check_poll")
                 /\ UNCHANGED result
            ELSE /\ loc' = [loc EXCEPT ![r].timed_out = FALSE]
                 /\ IF status = "idle" \/ (status = "interrupted" /\ interrupt_data)
                    THEN check_return(r, TRUE, Some(status))
                    ELSE check_return(r, FALSE, None)
    /\ UNCHANGED <<store, index, now, rq>>

\* the loop of lines 414-423 that never runs out of attempts
check_poll_unbounded(r) ==
    /\ pc[r] = "check_poll"
    /\ \E status \in StatusAnswers :
         IF status = "raise"
         THEN /\ loc' = [loc EXCEPT ![r].polls = @ + 1, ![r].timed_out = FALSE]
              /\ check_return(r, FALSE, None)
         ELSE /\ loc' = [loc EXCEPT ![r].polls = @ + 1,
                                    ![r].current_status = Some(status)]
              /\ Goto(r, IF status # "running" THEN "check_after_loop"
                         ELSE "check_poll")
              /\ UNCHANGED result
    /\ UNCHANGED <<store, index, now, rq>>

\* lines 414-423: one turn of `for i in range(max_attempts)`: attempt_count
\* = i, a status query, break unless it says running, else time.sleep(1)
check_poll(r) ==
    /\ pc[r] = "check_poll"
    /\ loc[r].i < max_attempts
    /\ \E status \in StatusAnswers :
         IF status = "raise"
         THEN /\ loc' = [loc EXCEPT ![r].attempt_count = loc[r].i,
                                    ![r].polls = @ + 1,
                                    ![r].timed_out = FALSE]
              /\ check_return(r, FALSE, None)
         ELSE /\ loc' = [loc EXCEPT ![r].attempt_count = loc[r].i,
                                    ![r].polls = @ + 1,
                                    ![r].current_status = Some(status),
                                    ![r].i = IF status = "running" THEN @ + 1 ELSE @]
              /\ Goto(r, IF status # "running" \/ loc[r].i + 1 = max_attempts
                         THEN "check_after_loop" ELSE "check_poll")
              /\ UNCHANGED result
    /\ UNCHANGED <<store, index, now, rq>>

\* lines 425-432: the timeout test, else the recursive call, which raises
\* RecursionError (caught at line 457) when the stack is full
check_after_loop(r) ==
    /\ pc[r] = "check_after_loop"
    /\ IF loc[r].attempt_count >= max_attempts - 1
       THEN /\ loc' = [loc EXCEPT ![r].timed_out = TRUE]
            /\ check_return(r, FALSE, None)
       ELSE IF loc[r].depth >= MaxDepth
            THEN /\ loc' = [loc EXCEPT ![r].timed_out = FALSE]
                 /\ check_return(r, FALSE, None)
            ELSE /\ loc' = [loc EXCEPT ![r].depth = @ + 1]
                 /\ Goto(r, "check_status")
                 /\ UNCHANGED result
    /\ UNCHANGED <<store, index, now, rq>>

check_and_restore_session(r) ==
    check_status(r) \/ check_poll(r) \/ check_after_loop(r)

\* main, lines 964-969: the user types 'new'; uuid4 gives an id not in use
main_new(r) ==
    /\ pc[r] = "main_prompt"
    /\ rq[r].session_id = "s1"
    /\ rq' = [rq EXCEPT ![r].session_id = "s2"]
    /\ result' = [result EXCEPT ![r] = Some(CheckResult(FALSE, None))]
    /\ UNCHANGED <<store, index, now, pc, loc>>

\* main, lines 939-941 and 1021-1035: the user types a question, and main
\* posts invoke_agent(user_id, session_id, query)
main_invoke(r) ==
    /\ pc[r] = "main_prompt"
    /\ \E q \in Queries : rq' = [rq EXCEPT ![r].query = Some(q)]
    /\ Finish(r, [kind |-> "invoke_sent", user_id |-> rq[r].user_id,
                  session_id |-> rq[r].session_id])
    /\ UNCHANGED <<store, index, now, loc>>

\* ------------------------------------------------------- specifications
Handler(r, Bodies, Outs) ==
    \/ invoke_exists(r) \/ invoke_create(r)
    \/ invoke_running_read(r) \/ invoke_running_write(r)
    \/ invoke_call(r, Outs)
    \/ resume_exists(r) \/ resume_get(r)
    \/ resume_running_read(r) \/ resume_running_write(r)
    \/ resume_call(r, Bodies, Outs)
    \/ result_exists(r) \/ result_read(r) \/ result_write(r)
    \/ error_read(r) \/ error_write(r)
    \/ delete_exists(r) \/ delete_session(r)
    \/ Return(r)

Arrival(r, K) == InvokeRequest(r, K) \/ ResumeRequest(r, K) \/ DeleteRequest(r, K)

Query(r) == status_exists(r) \/ status_get(r) \/ Return(r)

\* Spec: every endpoint may run concurrently with the others.  The requests
\* in flight contend for one session, use one request body of each form,
\* and run within one reading of the clock; AgentRuntime completes, raises,
\* or returns an interrupt marker listing no or one interrupt.
SharedKeys == {Key("u1", "s1")}
SharedBodies ==
    {b \in InterruptResponses :
        /\ b.response_type = "approve"
        /\ \/ IsNone(b.interrupt_responses) /\ IsNone(b.interrupt_id)
           \/ /\ ~IsNone(b.interrupt_responses) /\ IsNone(b.interrupt_id)
              /\ Val(b.interrupt_responses) = [i \in {1} |-> "approve"]}

SharedOutcomes ==
    {o \in Outcomes :
        /\ Len(o.interrupts) <= 1
        /\ \A i \in DOMAIN o.interrupts :
               o.interrupts[i].allowed_decisions = DefaultAllowed}

Next ==
    \/ \E r \in Reqs : Arrival(r, SharedKeys)
    \/ \E r \in Reqs : Handler(r, SharedBodies, SharedOutcomes)
    \/ \E k \in SharedKeys : Expire(k)

Spec == Init /\ [][Next]_vars

\* SpecSeq: one request at a time, on one session of either user and with
\* any request body; a record expires only while no handler is in flight.
\* A client that has its response, or has no request out, may ask for the
\* status of a session on the second slot.
Quiet == \A r \in Reqs : pc[r] = "idle"
SeqKeys == Users \X {"s1"}

NextSeq ==
    \/ Quiet /\ Arrival("r1", SeqKeys)
    \/ Handler("r1", InterruptResponses, Outcomes)
    \/ Quiet /\ \E k \in SeqKeys : Expire(k)
    \/ pc["r1"] \in {"idle", "done"} /\ StatusRequest("r2", SeqKeys)
    \/ Query("r2")
    \/ Tick

SpecSeq == Init /\ [][NextSeq]_vars

\* SpecLive: the setting of Spec, where in addition no handler is stuck for ever: every
\* await of a handler in flight (a Redis call, the AgentRuntime call) comes
\* back, and the event loop resumes the handler.
\* The requests carry a bare decision; AgentRuntime completes, raises, or
\* returns one interrupt.
LiveBodies == {b \in SharedBodies : IsNone(b.interrupt_responses)}
LiveOutcomes == {o \in SharedOutcomes : o.kind = "interrupt" => Len(o.interrupts) = 1}

NextLive ==
    \/ \E r \in Reqs : Arrival(r, SharedKeys)
    \/ \E r \in Reqs : Handler(r, LiveBodies, LiveOutcomes)
    \/ \E k \in SharedKeys : Expire(k)

Fairness == \A r \in Reqs : WF_vars(Handler(r, LiveBodies, LiveOutcomes))

SpecLive == Init /\ [][NextLive]_vars /\ Fairness

\* SpecClock: two overlapping invoke requests on one session while the
\* wall clock advances; AgentRuntime completes or raises.
InvokeHandler(r, Outs) ==
    \/ invoke_exists(r) \/ invoke_create(r)
    \/ invoke_running_read(r) \/ invoke_running_write(r)
    \/ invoke_call(r, Outs)
    \/ result_exists(r) \/ result_read(r) \/ result_write(r)
    \/ error_read(r) \/ error_write(r)
    \/ Return(r)

ClockOutcomes == {o \in Outcomes : o.kind \in {"result", "raise"}}

NextClock ==
    \/ \E r \in Reqs : InvokeRequest(r, SharedKeys)
    \/ \E r \in Reqs : InvokeHandler(r, ClockOutcomes)
    \/ Tick

SpecClock == Init /\ [][NextClock]_vars

\* SpecQuery: while one client's requests for a session run on the first
\* slot, and its record may expire at any moment, the status of the session
\* and the active session of a user are queried on the second slot.
ActiveQuery(r) == active_exists(r) \/ active_get(r)

NextQuery ==
    \/ Arrival("r1", SharedKeys)
    \/ Handler("r1", SharedBodies, SharedOutcomes)
    \/ StatusRequest("r2", SharedKeys)
    \/ ActiveRequest("r2", Users)
    \/ Query("r2")
    \/ ActiveQuery("r2")
    \/ \E k \in SharedKeys : Expire(k)

SpecQuery == Init /\ [][NextQuery]_vars

\* SpecFail: one request at a time on one session, and any Redis call of
\* the request in flight may fail.
NextFail ==
    \/ Quiet /\ Arrival("r1", SharedKeys)
    \/ Handler("r1", SharedBodies, SharedOutcomes)
    \/ store_raises("r1")
    \/ Quiet /\ \E k \in SharedKeys : Expire(k)

SpecFail == Init /\ [][NextFail]_vars

\* SpecClient: the command-line client from its start to its first invoke,
\* against a server that answers each status query in any way.
\* SpecClientLive: in addition every status query is answered (or fails)
\* and the client goes on.
NextClient ==
    \/ main_check("r1")
    \/ check_and_restore_session("r1")
    \/ main_new("r1")
    \/ main_invoke("r1")

SpecClient == Init /\ [][NextClient]_vars

SpecClientLive == SpecClient /\ WF_vars(check_and_restore_session("r1"))

\* SpecPure: the functions that touch no store, applied to each of their
\* inputs in turn.
\* --------------------------- create_session and the cleanup, step by step
\* create_session and get_all_session_ids with every Redis command as a
\* step of its own, so that the commands of two calls interleave.
CreateCall(r, K) ==
    /\ pc[r] = "idle"
    /\ \E k \in K :
         rq' = [rq EXCEPT ![r] = [op |-> "create_session", user_id |-> k[1],
                                  session_id |-> k[2], query |-> None]]
    /\ Goto(r, "create_set")
    /\ UNCHANGED <<store, index, now, loc, result>>

\* redis_manager.py lines 106-112: SET session:{user_id}:{session_id} ... EX ttl
create_set(r) ==
    /\ pc[r] = "create_set"
    /\ store' = SetKey(store, ReqKey(r),
                    session_data(rq[r].session_id, "idle", None, None,
                                 Some(now), Some(TTL)))
    /\ Goto(r, "create_sadd")
    /\ UNCHANGED <<index, now, rq, loc, result>>

\* line 114: SADD user_sessions:{user_id} session_id; line 116: return
create_sadd(r) ==
    /\ pc[r] = "create_sadd"
    /\ index' = [index EXCEPT ![rq[r].user_id] = @ \cup {rq[r].session_id}]
    /\ Finish(r, Returned(rq[r].session_id, {}))
    /\ UNCHANGED <<store, now, rq, loc>>

ListCall(r, U) ==
    /\ pc[r] = "idle"
    /\ \E u \in U :
         rq' = [rq EXCEPT ![r] = [op |-> "get_all_session_ids", user_id |-> u,
                                  session_id |-> "s1", query |-> None]]
    /\ Goto(r, "cleanup_smembers")
    /\ UNCHANGED <<store, index, now, loc, result>>

\* cleanup_user_sessions line 338: session_ids = SMEMBERS user_sessions:{user_id}
cleanup_smembers(r) ==
    /\ pc[r] = "cleanup_smembers"
    /\ loc' = [loc EXCEPT ![r] = [session_ids |-> index[rq[r].user_id],
                                  session_id |-> "s1"]]
    /\ Goto(r, "cleanup_exists")
    /\ UNCHANGED <<store, index, now, rq, result>>

\* lines 340-341: the next session_id of the loop (a set has no order) and
\* its EXISTS; after the last one, line 346
cleanup_exists(r) ==
    /\ pc[r] = "cleanup_exists"
    /\ IF loc[r].session_ids = {}
       THEN /\ Goto(r, "cleanup_scard")
            /\ loc' = loc
       ELSE \E session_id \in loc[r].session_ids :
              /\ loc' = [loc EXCEPT ![r] = [session_ids |-> loc[r].session_ids \ {session_id},
                                            session_id |-> session_id]]
              /\ IF KeyExists(store, Key(rq[r].user_id, session_id))
                 THEN Goto(r, "cleanup_exists")
                 ELSE Goto(r, "cleanup_srem")
    /\ UNCHANGED <<store, index, now, rq, result>>

\* line 343: SREM user_sessions:{user_id} session_id
cleanup_srem(r) ==
    /\ pc[r] = "cleanup_srem"
    /\ index' = [index EXCEPT ![rq[r].user_id] = @ \ {loc[r].session_id}]
    /\ Goto(r, "cleanup_exists")
    /\ UNCHANGED <<store, now, rq, loc, result>>

\* line 347: SCARD user_sessions:{user_id}
cleanup_scard(r) ==
    /\ pc[r] = "cleanup_scard"
    /\ IF index[rq[r].user_id] = {}
       THEN Goto(r, "cleanup_delete")
       ELSE Goto(r, "list_smembers")
    /\ UNCHANGED <<store, index, now, rq, loc, result>>

\* line 348: DEL user_sessions:{user_id}
cleanup_delete(r) ==
    /\ pc[r] = "cleanup_delete"
    /\ index' = [index EXCEPT ![rq[r].user_id] = {}]
    /\ Goto(r, "list_smembers")
    /\ UNCHANGED <<store, now, rq, loc, result>>

\* get_all_session_ids lines 242-244: SMEMBERS, return list(session_ids)
list_smembers(r) ==
    /\ pc[r] = "list_smembers"
    /\ Finish(r, Returned(index[rq[r].user_id], {}))
    /\ UNCHANGED <<store, index, now, rq, loc>>

CleanupKeys == {"u1"} \X Sessions

NextCleanup ==
    \/ \E r \in Reqs : CreateCall(r, CleanupKeys)
    \/ \E r \in Reqs : create_set(r)
    \/ \E r \in Reqs : create_sadd(r)
    \/ \E r \in Reqs : ListCall(r, {"u1"})
    \/ \E r \in Reqs : cleanup_smembers(r)
    \/ \E r \in Reqs : cleanup_exists(r)
    \/ \E r \in Reqs : cleanup_srem(r)
    \/ \E r \in Reqs : cleanup_scard(r)
    \/ \E r \in Reqs : cleanup_delete(r)
    \/ \E r \in Reqs : list_smembers(r)
    \/ \E r \in Reqs : Return(r)
    \/ \E k \in CleanupKeys : Expire(k)

SpecCleanup == Init /\ [][NextCleanup]_vars

NextPure ==
    \/ build_Command("r1")
    \/ wrapped_tool_call("r1")

SpecPure == Init /\ [][NextPure]_vars

\* SpecStore: one caller uses RedisSessionManager directly, one call at a
\* time, while records expire and the clock advances.  One key takes every
\* combination of arguments; the other keys are created and updated with
\* the defaults and a last_updated.
StoreKeys == {Key("u1", "s1"), Key("u1", "s2"), Key("u2", "s1")}
FullKeys == {Key("u1", "s1")}
StoreStatuses == {"idle", "running"}
StoreResponse(k) == AgentResponse(k[2], "completed", None, Some("result"), None)
CreateArgs(k) ==
    IF k \in FullKeys
    THEN [status : StoreStatuses,
          last_query : {None} \cup {Some(q) : q \in Queries},
          last_response : {None, Some(StoreResponse(k))},
          last_updated : {None, Some(now)},
          ttl : {None, Some(TTL)}]
    ELSE [status : {"idle"}, last_query : {None}, last_response : {None},
          last_updated : {None, Some(now)}, ttl : {None}]
UpdateArgs(k) ==
    IF k \in FullKeys
    THEN [status : {None} \cup {Some(st) : st \in StoreStatuses},
          last_query : {None} \cup {Some(q) : q \in Queries},
          last_response : {None, Some(StoreResponse(k))},
          last_updated : {None, Some(now)},
          ttl : {None, Some(TTL)}]
    ELSE [status : {None}, last_query : {None}, last_response : {None},
          last_updated : {Some(now)}, ttl : {None}]

NextStore ==
    \/ \E k \in StoreKeys : \E a \in CreateArgs(k) : call_create_session("r1", k, a)
    \/ \E k \in StoreKeys : \E a \in UpdateArgs(k) : call_update_session("r1", k, a)
    \/ \E k \in StoreKeys : call_get_session("r1", k)
    \/ \E k \in StoreKeys : call_session_id_exists("r1", k)
    \/ \E u \in Users : call_get_all_session_ids("r1", u)
    \/ \E u \in Users : call_get_user_active_session_id("r1", u)
    \/ call_get_session_count("r1")
    \/ \E k \in StoreKeys : call_delete_session("r1", k)
    \/ Return("r1")
    \/ \E k \in StoreKeys : Expire(k)
    \/ Tick

SpecStore == Init /\ [][NextStore]_vars

\* =================================================================
\* Properties
\* =================================================================
\* slot r takes a step
Steps(r) == pc'[r] # pc[r]
Rec(k) == Val(store[k])

\* C1: a resume request for an existing session whose persisted status is
\* idle, running, completed or error is rejected with HTTP 400; the step
\* that rejects it leaves every record as it was, and a request rejected
\* with 400 has never called AgentRuntime.
C1_InvalidTransitionRejected ==
    /\ [](\A r \in Reqs :
            (rq[r].op = "resume" /\ result[r] = Some(HTTPException(400)))
            => /\ loc[r].called = 0
               /\ Val(loc[r].session).status
                      \in {"idle", "running", "completed", "error"})
    /\ [][\A r \in Reqs :
            (/\ pc[r] = "resume_get"
             /\ Steps(r)
             /\ KeyExists(store, ReqKey(r))
             /\ Rec(ReqKey(r)).status # "interrupted")
            => /\ pc'[r] = "done"
               /\ result'[r] = Some(HTTPException(400))
               /\ store' = store
               /\ loc'[r].called = 0]_vars

C1_Witness ==
    \E r \in Reqs :
        /\ rq[r].op = "resume"
        /\ result[r] = Some(HTTPException(400))
        /\ StatusOf(store, ReqKey(r)) = "completed"

\* C2: a resume request for a (user_id, session_id) with no live record is
\* rejected with HTTP 404; the rejecting step creates no record and adds
\* no entry to any user's index, and the request never creates a session
\* or calls AgentRuntime.
C2_ResumeNotFound ==
    /\ [](\A r \in Reqs :
            (rq[r].op = "resume" /\ result[r] = Some(HTTPException(404)))
            => loc[r].called = 0 /\ loc[r].created = 0)
    /\ [][\A r \in Reqs :
            (/\ pc[r] = "resume_exists"
             /\ Steps(r)
             /\ ~KeyExists(store, ReqKey(r)))
            => /\ pc'[r] = "done"
               /\ result'[r] = Some(HTTPException(404))
               /\ store' = store
               /\ \A u \in Users : index'[u] \subseteq index[u]
               /\ loc'[r].called = 0 /\ loc'[r].created = 0]_vars

C2_Witness ==
    \E r \in Reqs :
        /\ rq[r].op = "resume"
        /\ result[r] = Some(HTTPException(404))
        /\ ~KeyExists(store, ReqKey(r))
        /\ rq[r].session_id \notin index[rq[r].user_id]

\* the pending interrupts a record's last_response carries
PendingOf(rec) ==
    IF IsNone(rec.last_response) THEN <<>>
    ELSE IF IsNone(Val(rec.last_response).interrupt_data) THEN <<>>
         ELSE Val(Val(rec.last_response).interrupt_data).interrupts
PendingIds(rec) == {PendingOf(rec)[i].id : i \in DOMAIN PendingOf(rec)}

\* C3: given a session with more than one pending interrupt, a resume call
\* that does not supply a decision for every pending interrupt_id is
\* rejected: AgentRuntime is never called with a payload that leaves a
\* pending interrupt of the session undecided.
C3_BatchAllOrNothing ==
    \A r \in Reqs :
        (/\ rq[r].op = "resume"
         /\ ~IsNone(loc[r].command)
         /\ ~IsNone(loc[r].session)
         /\ Len(PendingOf(Val(loc[r].session))) > 1)
        => /\ Val(loc[r].command).form = "map"
           /\ PendingIds(Val(loc[r].session))
                  \subseteq DOMAIN Val(loc[r].command).decisions

\* C4: every decision of a resume request has a type allowed by the
\* corresponding pending interrupt: AgentRuntime is never called, and the
\* store never written, for a request carrying a decision outside
\* allowed_decisions.
C4_DecisionAllowed ==
    \A r \in Reqs :
        (/\ rq[r].op = "resume"
         /\ ~IsNone(loc[r].command)
         /\ ~IsNone(loc[r].session))
        => LET pending == PendingOf(Val(loc[r].session))
               command == Val(loc[r].command)
           IN  \A i \in DOMAIN pending :
                   IF command.form = "map"
                   THEN pending[i].id \in DOMAIN command.decisions
                        => command.decisions[pending[i].id]
                               \in pending[i].allowed_decisions
                   ELSE command.type \in pending[i].allowed_decisions

\* C5: in every persisted state a record's status is interrupted if and
\* only if its last_response carries one or more pending interrupts.
C5_InterruptedIffPending ==
    \A k \in Keys :
        KeyExists(store, k)
        => (Rec(k).status = "interrupted" <=> Len(PendingOf(Rec(k))) >= 1)

\* the status the transition table assigns to an AgentRuntime outcome
C6_OutcomeStatus(o) ==
    CASE o.kind = "raise" -> "error"
      [] o.kind = "interrupt" /\ Len(o.interrupts) >= 1 -> "interrupted"
      [] o.kind = "interrupt" /\ Len(o.interrupts) = 0 -> "error"
      [] OTHER -> "completed"

\* C6: the status written after an AgentRuntime call is the classification
\* of its outcome (interrupted for pending interrupts, completed for none,
\* error for an exception in the call or in the classification); the
\* response carries the same status, and the steps after the call write
\* nothing else.
C6_StatusFromOutcome ==
    /\ [](\A r \in Reqs :
            (pc[r] = "done" /\ loc[r].called = 1)
            => /\ result[r] # None
               /\ Val(result[r]).kind = "AgentResponse"
               /\ Val(Val(result[r]).body).status
                      = C6_OutcomeStatus(Val(loc[r].outcome)))
    /\ [][\A r \in Reqs :
            /\ (pc[r] \in {"result_write", "error_write"} /\ Steps(r))
               => /\ KeyExists(store', ReqKey(r))
                  /\ Val(store'[ReqKey(r)]).status
                         = C6_OutcomeStatus(Val(loc[r].outcome))
                  /\ Val(store'[ReqKey(r)]).status
                         \in {"interrupted", "completed", "error"}
            /\ (pc[r] \in {"result_exists", "result_read", "error_read"}
                /\ Steps(r))
               => store' = store]_vars

C6_Witness ==
    \E r \in Reqs :
        /\ pc[r] = "done"
        /\ loc[r].called = 1
        /\ Val(loc[r].outcome).kind = "interrupt"
        /\ Len(Val(loc[r].outcome).interrupts) = 1
        /\ StatusOf(store, ReqKey(r)) = "interrupted"

\* C7: when AgentRuntime raises during an invoke or a resume, the request
\* ends with a normal AgentResponse of status error carrying a message,
\* and the record's persisted status is error with that response.
C7_RuntimeFailureAbsorbed ==
    \A r \in Reqs :
        (/\ pc[r] = "done"
         /\ ~IsNone(loc[r].outcome)
         /\ Val(loc[r].outcome).kind = "raise")
        => /\ result[r] # None
           /\ Val(result[r]).kind = "AgentResponse"
           /\ Val(Val(result[r]).body).status = "error"
           /\ ~IsNone(Val(Val(result[r]).body).message)
           /\ StatusOf(store, ReqKey(r)) = "error"
           /\ Rec(ReqKey(r)).last_response = Val(result[r]).body

C7_Witness ==
    \E r \in Reqs :
        /\ pc[r] = "done"
        /\ rq[r].op = "resume"
        /\ ~IsNone(loc[r].outcome)
        /\ Val(loc[r].outcome).kind = "raise"
        /\ StatusOf(store, ReqKey(r)) = "error"

\* C8: a resume request on a session whose status is interrupted has moved
\* the persisted status to running when AgentRuntime.resume is called, and
\* when the call has returned the status is one of completed, interrupted
\* or error.
C8_ResumeRunsThenSettles ==
    \A r \in Reqs :
        rq[r].op = "resume"
        => /\ pc[r] = "resume_call"
              => /\ Val(loc[r].session).status = "interrupted"
                 /\ StatusOf(store, ReqKey(r)) = "running"
           /\ (pc[r] = "done" /\ loc[r].called = 1)
              => StatusOf(store, ReqKey(r))
                     \in {"completed", "interrupted", "error"}

C8_Witness ==
    \E r \in Reqs :
        /\ rq[r].op = "resume"
        /\ pc[r] = "done"
        /\ loc[r].called = 1
        /\ StatusOf(store, ReqKey(r)) = "interrupted"

C10_CreateOnFirstInvoke ==
    /\ [](\A r \in Reqs :
            rq[r].op = "invoke"
            => /\ loc[r].created <= 1
               /\ pc[r] = "invoke_create" => ~KeyExists(store, ReqKey(r))
               /\ pc[r] = "invoke_call"
                  => /\ StatusOf(store, ReqKey(r)) = "running"
                     /\ rq[r].session_id \in index[rq[r].user_id])
    /\ [][\A r \in Reqs :
            /\ (pc[r] = "invoke_exists" /\ Steps(r))
               => /\ store' = store
                  /\ loc'[r].created = 0
                  /\ pc'[r] = IF KeyExists(store, ReqKey(r))
                              THEN "invoke_running_read" ELSE "invoke_create"
            /\ (pc[r] = "invoke_create" /\ Steps(r))
               => /\ KeyExists(store', ReqKey(r))
                  /\ Val(store'[ReqKey(r)]).status = "idle"
                  /\ IsNone(Val(store'[ReqKey(r)]).last_query)
                  /\ IsNone(Val(store'[ReqKey(r)]).last_response)
                  /\ \A k \in Keys \ {ReqKey(r)} : store'[k] = store[k]
                  /\ index' = [index EXCEPT ![rq[r].user_id] =
                                   @ \cup {rq[r].session_id}]
                  /\ loc'[r].created = 1
            /\ (pc[r] \notin {"invoke_create", "done"} /\ Steps(r))
               => loc'[r].created = loc[r].created]_vars

C10_Witness ==
    \E r \in Reqs :
        /\ rq[r].op = "invoke"
        /\ pc[r] = "invoke_call"
        /\ loc[r].created = 1
        /\ StatusOf(store, ReqKey(r)) = "running"
        /\ rq[r].session_id \in index[rq[r].user_id]

\* slot r makes the call op of RedisSessionManager in this step
CallStep(r, op) == pc[r] = "idle" /\ pc'[r] = "done" /\ rq'[r].op = op
\* slot r has made the call op and holds what it returned
Called(r, op) == pc[r] = "done" /\ rq[r].op = op
Absent(u) == {s \in Sessions : ~KeyExists(store, Key(u, s))}

\* C11: once a record is gone because its TTL elapsed (and it was not
\* created again), get_session returns None for it, session_id_exists
\* returns False, get_all_session_ids and get_user_active_session_id do
\* not return its id, and each of the index-affecting queries leaves the
\* user's index set without the id (an index set left without members is
\* the deleted set, as in Redis).
C11_ExpiredInvisible ==
    [][\A r \in Reqs :
         /\ (CallStep(r, "get_session") /\ ~KeyExists(store, ReqKey(r)'))
            => Val(result'[r]).value = None
         /\ (CallStep(r, "session_id_exists") /\ ~KeyExists(store, ReqKey(r)'))
            => /\ Val(result'[r]).value = FALSE
               /\ index'[rq'[r].user_id] \cap Absent(rq'[r].user_id) = {}
         /\ CallStep(r, "get_all_session_ids")
            => /\ Val(result'[r]).value \cap Absent(rq'[r].user_id) = {}
               /\ index'[rq'[r].user_id] \cap Absent(rq'[r].user_id) = {}
         /\ CallStep(r, "get_user_active_session_id")
            => /\ \A s \in Absent(rq'[r].user_id) :
                      Val(result'[r]).value # Some(s)
               /\ index'[rq'[r].user_id] \cap Absent(rq'[r].user_id) = {}
         /\ CallStep(r, "get_session_count")
            => \A u \in Users : index'[u] \cap Absent(u) = {}
         /\ (CallStep(r, "get_session") \/ CallStep(r, "session_id_exists")
             \/ CallStep(r, "get_all_session_ids")
             \/ CallStep(r, "get_user_active_session_id")
             \/ CallStep(r, "get_session_count"))
            => store' = store]_vars

\* get_all_session_ids has dropped the id of an expired record from the
\* index and returned the ids of the live ones only
C11_Witness ==
    \E r \in Reqs :
        /\ Called(r, "get_all_session_ids")
        /\ Val(result[r]).removed # {}
        /\ \A k \in Val(result[r]).removed :
               ~KeyExists(store, k) /\ k[2] \notin index[k[1]]
        /\ Val(result[r]).value # {}

C13_UpdateAbsent ==
    [][\A r \in Reqs :
         (CallStep(r, "update_session") /\ ~KeyExists(store, ReqKey(r)'))
         => /\ Val(result'[r]).value = FALSE
            /\ store' = store
            /\ index' = index]_vars

C13_Witness ==
    \E r \in Reqs :
        /\ Called(r, "update_session")
        /\ Val(result[r]).value = FALSE
        /\ rq[r].args.status # None
        /\ ~KeyExists(store, ReqKey(r))
        /\ rq[r].session_id \notin index[rq[r].user_id]

\* C14: a successful update_session overwrites exactly the attributes the
\* caller supplied (those given a value other than None) and leaves each
\* other attribute of the record, session_id included, as it was; no other
\* record and no index set changes.
C14_UpdateFrame ==
    [][\A r \in Reqs :
         (CallStep(r, "update_session") /\ KeyExists(store, ReqKey(r)'))
         => LET k == ReqKey(r)'
                a == rq'[r].args
                old == Val(get_session(store, k))
                new == Val(get_session(store', k))
            IN  /\ Val(result'[r]).value = TRUE
                /\ KeyExists(store', k)
                /\ new.session_id = old.session_id
                /\ new.status = IF a.status = None THEN old.status
                                ELSE Val(a.status)
                /\ new.last_query = IF a.last_query = None THEN old.last_query
                                    ELSE a.last_query
                /\ new.last_response = IF a.last_response = None
                                       THEN old.last_response
                                       ELSE a.last_response
                /\ new.last_updated = IF a.last_updated = None
                                      THEN old.last_updated
                                      ELSE a.last_updated
                /\ \A k2 \in Keys \ {k} : store'[k2] = store[k2]
                /\ index' = index]_vars

\* an update that supplied a status only has kept the query and the
\* response the record carried
C14_Witness ==
    \E r \in Reqs :
        /\ Called(r, "update_session")
        /\ Val(result[r]).value = TRUE
        /\ rq[r].args.status = Some("running")
        /\ rq[r].args.last_query = None
        /\ rq[r].args.last_response = None
        /\ KeyExists(store, ReqKey(r))
        /\ Rec(ReqKey(r)).status = "running"
        /\ Rec(ReqKey(r)).last_query # None
        /\ Rec(ReqKey(r)).last_response # None

\* C15: every create_session and every successful update_session gives the
\* record the lifetime the caller supplied when it supplied one and the
\* configured default session_timeout otherwise, whatever lifetime the
\* record had before.
C15_WriteResetsTtl ==
    [][\A r \in Reqs :
         (\/ CallStep(r, "create_session")
          \/ CallStep(r, "update_session") /\ Val(result'[r]).value = TRUE)
         => /\ KeyExists(store', ReqKey(r)')
            /\ Val(store'[ReqKey(r)']).ttl =
                   IF rq'[r].args.ttl = None THEN SESSION_TIMEOUT
                   ELSE Val(rq'[r].args.ttl)]_vars

\* an update without a ttl has put a record written with ttl = TTL back on
\* the default lifetime
C15_Witness ==
    \E r \in Reqs :
        /\ Called(r, "update_session")
        /\ Val(result[r]).value = TRUE
        /\ rq[r].args.ttl = None
        /\ rq[r].args.last_response # None
        /\ KeyExists(store, ReqKey(r))
        /\ Rec(ReqKey(r)).ttl = SESSION_TIMEOUT
        /\ Rec(ReqKey(r)).last_query # None

\* the user's live sessions whose last_updated is a timestamp
C16_Candidates(u) ==
    {s \in Sessions : /\ KeyExists(store, Key(u, s))
                      /\ Rec(Key(u, s)).last_updated # None}

\* C16: get_user_active_session_id(user) returns a session id with the
\* greatest last_updated among the user's live sessions whose last_updated
\* is not the "0:00:00" sentinel, and returns None exactly when the user
\* has no such session.
C16_MostRecentSession ==
    [][\A r \in Reqs :
         CallStep(r, "get_user_active_session_id")
         => LET u == rq'[r].user_id
                v == Val(result'[r]).value
            IN  /\ v = None <=> C16_Candidates(u) = {}
                /\ v # None
                   => /\ Val(v) \in C16_Candidates(u)
                      /\ \A s \in C16_Candidates(u) :
                             Val(Rec(Key(u, Val(v))).last_updated)
                                 >= Val(Rec(Key(u, s)).last_updated)]_vars

\* of two live sessions of a user the later updated one was returned
C16_Witness ==
    \E r \in Reqs :
        /\ Called(r, "get_user_active_session_id")
        /\ rq[r].user_id = "u1"
        /\ Val(result[r]).value = Some("s2")
        /\ C16_Candidates("u1") = {"s1", "s2"}
        /\ Val(Rec(Key("u1", "s2")).last_updated)
               > Val(Rec(Key("u1", "s1")).last_updated)

\* C17: get_session_count returns exactly the number of live session
\* records (not expired, not deleted) of all users together.
C17_CountLive ==
    [][\A r \in Reqs :
         CallStep(r, "get_session_count")
         => /\ Val(result'[r]).value
                   = Cardinality({k \in Keys : store[k] # None})
            /\ store' = store]_vars

\* two records of two users were counted after a third had expired
C17_Witness ==
    \E r \in Reqs :
        /\ Called(r, "get_session_count")
        /\ Val(result[r]).value = 2
        /\ Val(result[r]).removed # {}
        /\ KeyExists(store, Key("u1", "s1"))
        /\ KeyExists(store, Key("u2", "s1"))

\* C18: a delete request for a (user, session) with no live record is
\* answered 404, changes no record and takes no live session out of an
\* index set (the existence test only drops ids whose record is gone); a
\* delete request for a live record removes the record and its index
\* entry and nothing else; the command-line client reports both answers
\* as success, without raising.
C18_DeleteIdempotent ==
    /\ [](\A r \in Reqs :
            (pc[r] = "done" /\ rq[r].op = "delete")
            => /\ Val(result[r]).status_code \in {200, 404}
               /\ frontend_delete_agent_session(Val(result[r])).raised = FALSE
               /\ frontend_delete_agent_session(Val(result[r])).status
                      = "success")
    /\ [][\A r \in Reqs :
            /\ (pc[r] = "delete_exists" /\ Steps(r))
               => /\ store' = store
                  /\ \A u \in Users :
                         index[u] \ Absent(u) \subseteq index'[u]
                            /\ index'[u] \subseteq index[u]
                  /\ IF KeyExists(store, ReqKey(r))
                     THEN pc'[r] = "delete_session"
                     ELSE /\ pc'[r] = "done"
                          /\ result'[r] = Some(HTTPException(404))
            /\ (pc[r] = "delete_session" /\ Steps(r))
               => /\ ~KeyExists(store', ReqKey(r))
                  /\ rq[r].session_id \notin index'[rq[r].user_id]
                  /\ \A k \in Keys \ {ReqKey(r)} : store'[k] = store[k]
                  /\ \A u \in Users :
                         index'[u] \ {rq[r].session_id}
                             = index[u] \ {rq[r].session_id}
                  /\ Val(result'[r]).status_code = 200]_vars

\* a delete of a session that has no record was answered 404
C18_Witness ==
    \E r \in Reqs :
        /\ pc[r] = "done"
        /\ rq[r].op = "delete"
        /\ result[r] = Some(HTTPException(404))
        /\ ~KeyExists(store, ReqKey(r))
        /\ frontend_delete_agent_session(Val(result[r])).message = "absent"

\* C19: when an invoke or a resume has returned an AgentResponse and a
\* status query for the same session is made afterwards, with no other
\* request and no expiry of the record in between, the query reports the
\* status of that response and that response as last_response.
C19_StatusAsFreshAsResponse ==
    \A r \in Reqs, q \in Reqs :
        (/\ pc[r] = "done"
         /\ rq[r].op \in {"invoke", "resume"}
         /\ Val(result[r]).kind = "AgentResponse"
         /\ pc[q] = "done"
         /\ rq[q].op = "status"
         /\ ReqKey(q) = ReqKey(r))
        => /\ Val(result[q]).kind = "SessionStatusResponse"
           /\ Val(Val(result[q]).body).status
                  = Val(Val(result[r]).body).status
           /\ Val(Val(result[q]).body).last_response = Val(result[r]).body

C19_Witness ==
    \E r \in Reqs, q \in Reqs :
        /\ pc[r] = "done"
        /\ rq[r].op = "resume"
        /\ Val(result[r]).kind = "AgentResponse"
        /\ Val(Val(result[r]).body).status = "interrupted"
        /\ pc[q] = "done"
        /\ rq[q].op = "status"
        /\ ReqKey(q) = ReqKey(r)
        /\ Val(Val(result[q]).body).status = "interrupted"
        /\ Val(Val(result[q]).body).last_response = Val(result[r]).body

\* C20: the write that follows an AgentRuntime outcome without pending
\* interrupts leaves the record with status completed, with no
\* last_query, and with a last_updated not before the one it had.
C20_CompletedClearsQuery ==
    [][\A r \in Reqs :
         (/\ pc[r] = "result_write"
          /\ Steps(r)
          /\ Val(loc[r].outcome).kind = "result")
         => /\ KeyExists(store', ReqKey(r))
            /\ Val(store'[ReqKey(r)]).status = "completed"
            /\ IsNone(Val(store'[ReqKey(r)]).last_query)
            /\ Val(Val(store'[ReqKey(r)]).last_updated)
                   >= Val(Val(loc[r].current_data).last_updated)]_vars

\* C21: every accepted resume request, whether it carries a batch of
\* decisions, one decision with its interrupt id, or a bare decision, makes
\* exactly one AgentRuntime call, and that call carries all the decisions of
\* the request in one payload; a resume that is rejected makes none.
C21_Payload(b) ==
    IF ~IsNone(b.interrupt_responses) /\ Val(b.interrupt_responses) # <<>>
    THEN [form |-> "map", decisions |-> Val(b.interrupt_responses)]
    ELSE IF ~IsNone(b.interrupt_id)
         THEN [form |-> "map", decisions |-> (Val(b.interrupt_id) :> b.response_type)]
         ELSE [form |-> "bare", type |-> b.response_type]
C21_OneResumeCall ==
    /\ \A b \in InterruptResponses : command_data(b) = C21_Payload(b)
    /\ [][\A r \in Reqs :
            pc[r] = "resume_call" /\ Steps(r) =>
                /\ loc[r].called = 0
                /\ loc'[r].called = 1
                /\ \E b \in InterruptResponses :
                       loc'[r].command = Some(C21_Payload(b))]_vars
    /\ [](\A r \in Reqs :
            rq[r].op = "resume" =>
                /\ loc[r].called <= 1
                /\ pc[r] = "done" =>
                       loc[r].called =
                           IF Val(result[r]).kind = "AgentResponse" THEN 1 ELSE 0)

\* a resume has just made its one call, with a batch of two decisions
C21_Witness ==
    \E r \in Reqs :
        /\ rq[r].op = "resume"
        /\ pc[r] = "result_exists"
        /\ loc[r].called = 1
        /\ ~IsNone(loc[r].command)
        /\ Val(loc[r].command).form = "map"
        /\ Cardinality(DOMAIN Val(loc[r].command).decisions) = 2

\* C22: a status query for a (user, session) that has no live record is
\* answered with HTTP 200 and status not_found, never with an error, and the
\* query neither creates a record nor stores the not_found status.
C22_NotFoundIsAnAnswer ==
    [][\A r \in Reqs :
         pc[r] = "status_exists" /\ Steps(r) /\ ~KeyExists(store, ReqKey(r))
         => /\ pc'[r] = "done"
            /\ Val(result'[r]).status_code = 200
            /\ Val(result'[r]).kind = "SessionStatusResponse"
            /\ Val(Val(result'[r]).body).status = "not_found"
            /\ store' = store
            /\ \A u \in Users : index'[u] \subseteq index[u]]_vars

\* a query found no record, was answered not_found, and there is still none
C22_Witness ==
    \E r \in Reqs :
        /\ rq[r].op = "status"
        /\ pc[r] = "done"
        /\ Val(result[r]).status_code = 200
        /\ Val(Val(result[r]).body).status = "not_found"
        /\ ~KeyExists(store, ReqKey(r))

\* C23: the active-session query always answers with a string: the empty
\* string when the user has no live session, and otherwise the id of the
\* user's most recently updated live session; it never fails.
C23_ActiveSessionIsString ==
    /\ [](\A r \in Reqs :
            rq[r].op = "active" /\ pc[r] = "done"
            => /\ Val(result[r]).status_code = 200
               /\ Val(Val(result[r]).body).active_session_id \in Sessions \cup {""})
    /\ [][\A r \in Reqs :
            rq[r].op = "active" /\ Steps(r) /\ pc'[r] = "done"
            => LET u == rq[r].user_id
                   v == Val(Val(result'[r]).body).active_session_id
               IN  /\ v = "" <=> \A s \in Sessions : ~KeyExists(store, Key(u, s))
                   /\ v # ""
                      => /\ v \in C16_Candidates(u)
                         /\ \A s \in C16_Candidates(u) :
                                Val(Rec(Key(u, v)).last_updated)
                                    >= Val(Rec(Key(u, s)).last_updated)]_vars

\* C24: sessions are told apart by (user_id, session_id): when two users use
\* the same session_id, no step of an invoke, resume or delete of one user
\* changes a record of the other user, and no AgentRuntime call of one user
\* runs on the conversation thread of a live session of the other user.
C24_CrossUserIsolation ==
    [][\A r \in Reqs :
         Steps(r) /\ rq[r].op \in {"invoke", "resume", "delete"}
         => /\ \A k \in Keys : k[1] # rq[r].user_id => store'[k] = store[k]
            /\ pc[r] \in {"invoke_call", "resume_call"}
               => \A k \in Keys :
                      k[1] # rq[r].user_id /\ KeyExists(store, k)
                      => thread_id(k[1], k[2])
                             # thread_id(rq[r].user_id, rq[r].session_id)]_vars

\* C25: when a store operation of an invoke or a resume fails, at whatever
\* step (the write that records the outcome included), the request ends as
\* a server-side failure and not as an AgentResponse, and after the failure
\* the request makes no further store operation.
C25_StoreFailed(r) == rq[r].op \in {"invoke", "resume"} /\ loc[r].outcome = Some(RedisError)
C25_StoreFailurePropagates ==
    /\ [](\A r \in Reqs :
            C25_StoreFailed(r) /\ pc[r] = "done"
            => /\ Val(result[r]).kind = "Unhandled"
               /\ Val(result[r]).status_code = 500)
    /\ [][\A r \in Reqs :
            C25_StoreFailed(r) /\ Steps(r) => pc[r] = "done"]_vars

\* C26: every submitted invoke and every accepted resume, its AgentRuntime
\* call having returned or raised, eventually returns a response whose
\* status is completed, interrupted or error; and whenever no call for a
\* session is in flight, its record, if live, is not in status running.
C26_InFlight(k) == \E r \in Reqs : pc[r] \notin {"idle", "done"} /\ ReqKey(r) = k
C26_RequestsSettle ==
    /\ \A r \in Reqs :
           (pc[r] \in {"invoke_exists", "resume_running_read"})
           ~> (/\ pc[r] = "done"
               /\ Val(result[r]).kind = "AgentResponse"
               /\ Val(Val(result[r]).body).status
                      \in {"completed", "interrupted", "error"})
    /\ [](\A k \in Keys :
            KeyExists(store, k) /\ ~C26_InFlight(k) => Rec(k).status # "running")

\* two overlapping calls for the session have both returned, and the
\* record is live
C26_Witness ==
    /\ \A r \in Reqs :
           /\ pc[r] = "done"
           /\ rq[r].op \in {"invoke", "resume"}
           /\ Val(result[r]).kind = "AgentResponse"
    /\ \E r \in Reqs : rq[r].op = "resume"
    /\ KeyExists(store, Key("u1", "s1"))
    /\ Rec(Key("u1", "s1")).status \in {"completed", "interrupted", "error"}

C28_FreshSessionAfterTimeout ==
    [][\A r \in Reqs :
         /\ pc[r] = "main_prompt" /\ pc'[r] = "done"
         /\ loc[r].timed_out /\ loc[r].current_status = Some("running")
         => Val(result'[r]).session_id # "s1"]_vars

\* C29: update_session is not atomic across its read and its write.  The
\* write stores the copy the call read, with the call's own field changes:
\* every field the call does not supply is as the call read it, whatever
\* another update has written to the record since, so of two overlapping
\* updates the later write wins and the earlier writer's changes are gone.
C29_LaterWriteWins ==
    [][\A r \in Reqs :
         /\ Steps(r)
         /\ pc[r] \in {"invoke_running_write", "resume_running_write",
                       "result_write", "error_write"}
         => LET copy == Val(loc[r].current_data)
                after == Val(store'[ReqKey(r)])
            IN  /\ KeyExists(store', ReqKey(r))
                /\ after.session_id = copy.session_id
                /\ pc[r] \in {"invoke_running_write", "resume_running_write"}
                   => /\ after.status = "running"
                      /\ after.last_response = copy.last_response
                /\ pc[r] \in {"resume_running_write", "result_write", "error_write"}
                   => after.last_query = copy.last_query]_vars

\* both updates have read the record; the first has since written its
\* response, which the copy held by the second, about to write, lacks
C29_Witness ==
    \E r1, r2 \in Reqs :
        /\ r1 # r2
        /\ pc[r1] = "done"
        /\ Val(result[r1]).kind = "AgentResponse"
        /\ pc[r2] = "invoke_running_write"
        /\ KeyExists(store, ReqKey(r2))
        /\ Rec(ReqKey(r2)).last_response = Val(result[r1]).body
        /\ Val(loc[r2].current_data).status = "running"
        /\ Val(loc[r2].current_data).last_response = None

\* the steps of invoke_agent / resume_agent that SET a session record
C30_WriteSteps ==
    {"invoke_create", "invoke_running_write", "resume_running_write",
     "result_write", "error_write"}

\* C30 as stated: within one invoke or resume, no store write of the call
\* precedes the return of its AgentRuntime call.
C30_NoWriteBeforeCall ==
    [][\A r \in Reqs :
         /\ Steps(r) /\ rq[r].op \in {"invoke", "resume"}
         /\ (pc[r] \in C30_WriteSteps \/ store' # store)
         => loc[r].called >= 1]_vars

\* C30: within one invoke or resume, the writes that record the outcome
\* (status completed, interrupted or error, with last_response) happen after
\* the AgentRuntime call has returned or raised; what the call writes before
\* it is the idle record of a new session and the update to running, and a
\* call changes records at no other step.
C30_OutcomeWrittenAfterCall ==
    [][\A r \in Reqs :
         Steps(r) /\ rq[r].op \in {"invoke", "resume"}
         => /\ store' # store => pc[r] \in C30_WriteSteps
            /\ pc[r] \in C30_WriteSteps
               => LET after == Val(store'[ReqKey(r)])
                  IN  IF loc[r].called = 0
                      THEN /\ pc[r] \in {"invoke_create", "invoke_running_write",
                                         "resume_running_write"}
                           /\ after.status =
                                  IF pc[r] = "invoke_create" THEN "idle" ELSE "running"
                           /\ pc[r] = "invoke_create" => after.last_response = None
                      ELSE /\ loc[r].called = 1
                           /\ pc[r] \in {"result_write", "error_write"}
                           /\ after.status \in {"completed", "interrupted", "error"}
                           /\ after.status = Val(loc[r].response).status
                           /\ after.last_response = loc[r].response
                           /\ pc'[r] = "done"]_vars

\* an invoke has created its record and set it to running, and is about to
\* call AgentRuntime
C30_Witness ==
    \E r \in Reqs :
        /\ rq[r].op = "invoke"
        /\ pc[r] = "invoke_call"
        /\ loc[r].called = 0
        /\ loc[r].created = 1
        /\ KeyExists(store, ReqKey(r))
        /\ Rec(ReqKey(r)).status = "running"

\* C31: the last_updated of a live record never decreases from one write to
\* the next, also when the writes come from overlapping invoke or resume
\* calls on the session, or from a create that follows an earlier write.
C31_LastUpdatedMonotonic ==
    [][\A k \in Keys :
         /\ KeyExists(store, k) /\ KeyExists(store', k)
         /\ Rec(k).last_updated # None
         /\ Val(store'[k]).last_updated # None
         => Val(Val(store'[k]).last_updated) >= Val(Rec(k).last_updated)]_vars

\* C32: there is no re-entry to idle.  Status idle is written only by the
\* create step of an invoke that finds no record, onto a key that holds no
\* record, and no step moves a live record whose status is running,
\* interrupted, completed or error to idle.
C32_NoReentryToIdle ==
    [][\A k \in Keys :
         KeyExists(store', k) /\ Val(store'[k]).status = "idle" /\ store'[k] # store[k]
         => /\ ~KeyExists(store, k)
            /\ \E r \in Reqs :
                   /\ Steps(r) /\ pc[r] = "invoke_create" /\ ReqKey(r) = k
                   /\ loc[r].called = 0]_vars

\* the request body of a payload built by slot r, and the payload
C33_Body(r) == Val(rq[r].args)
C33_Payload(r) == Val(result[r]).value

\* C33 as stated: exactly one form is applied, by fixed precedence: a
\* non-empty interrupt_responses map is passed unchanged; otherwise a given
\* interrupt_id yields a one-entry map keyed by that id whose entry holds
\* the decision type and the args; otherwise the bare {type, args?}.
C33_PayloadByPrecedence ==
    \A r \in Reqs :
        Called(r, "Command")
        => LET b == C33_Body(r)
               p == C33_Payload(r)
           IN  IF TruthyDict(b.interrupt_responses)
               THEN p.form = "interrupt_responses"
                    /\ p.resume = Val(b.interrupt_responses)
               ELSE IF TruthyStr(b.interrupt_id)
                    THEN /\ p.form = "interrupt_id"
                         /\ DOMAIN p.resume = {Val(b.interrupt_id)}
                         /\ LET e == p.resume[Val(b.interrupt_id)]
                            IN  /\ e["type"] = b.response_type
                                /\ TruthyDict(b.args)
                                   => \A key \in DOMAIN Val(b.args) :
                                          e[key] = Val(b.args)[key]
                    ELSE /\ p.form = "legacy"
                         /\ p.resume["type"] = Some(b.response_type)
                         /\ IF TruthyDict(b.args)
                            THEN /\ DOMAIN p.resume = {"type", "args"}
                                 /\ p.resume["args"] = b.args
                            ELSE DOMAIN p.resume = {"type"}

\* C33: exactly one form is applied, by fixed precedence: a non-empty
\* interrupt_responses map is passed unchanged; otherwise a non-empty
\* interrupt_id yields a one-entry map keyed by that id whose entry is the
\* items of args laid beside "type" (not under an "args" key), "type" being
\* the decision type unless args has an item named "type", which replaces
\* it; otherwise the bare {type} is passed, with args under "args" when
\* args is non-empty.
C33_PayloadByPrecedenceSpread ==
    \A r \in Reqs :
        Called(r, "Command")
        => LET b == C33_Body(r)
               p == C33_Payload(r)
           IN  IF TruthyDict(b.interrupt_responses)
               THEN p.form = "interrupt_responses"
                    /\ p.resume = Val(b.interrupt_responses)
               ELSE IF TruthyStr(b.interrupt_id)
                    THEN /\ p.form = "interrupt_id"
                         /\ DOMAIN p.resume = {Val(b.interrupt_id)}
                         /\ LET e == p.resume[Val(b.interrupt_id)]
                                a == IF TruthyDict(b.args) THEN Val(b.args) ELSE EmptyDict
                            IN  /\ DOMAIN e = {"type"} \cup DOMAIN a
                                /\ \A key \in DOMAIN a : e[key] = a[key]
                                /\ "type" \notin DOMAIN a => e["type"] = b.response_type
                    ELSE /\ p.form = "legacy"
                         /\ p.resume["type"] = Some(b.response_type)
                         /\ IF TruthyDict(b.args)
                            THEN /\ DOMAIN p.resume = {"type", "args"}
                                 /\ p.resume["args"] = b.args
                            ELSE DOMAIN p.resume = {"type"}

\* a body with all three forms: the batch is what was passed
C33_Witness ==
    \E r \in Reqs :
        /\ Called(r, "Command")
        /\ TruthyDict(C33_Body(r).interrupt_responses)
        /\ TruthyStr(C33_Body(r).interrupt_id)
        /\ TruthyDict(C33_Body(r).args)
        /\ C33_Payload(r).form = "interrupt_responses"
        /\ DOMAIN C33_Payload(r).resume = PayloadIds

\* C34: in the tool approval wrapper a response decision never runs the
\* underlying tool, and the message the reviewer gave is the tool output; a
\* reject decision never runs the tool either; the tool runs only for an
\* accept or an edit decision (for edit, on the replaced arguments), and a
\* decision type the wrapper does not know raises an error without running
\* the tool.
C34_ToolRunsOnlyWhenApproved ==
    \A r \in Reqs :
        Called(r, "call_tool_with_interrupt")
        => LET a == Val(rq[r].args)
               v == Val(result[r]).value
           IN  /\ a.response.type = "response"
                  => /\ v.executed = <<>>
                     /\ ~IsNone(a.response.args)
                        => IsNone(v.raised) /\ v.tool_response = a.response.args
               /\ a.response.type = "reject"
                  => v.executed = <<>> /\ IsNone(v.raised)
               /\ v.executed # <<>>
                  => /\ Len(v.executed) = 1
                     /\ a.response.type \in {"accept", "edit"}
                     /\ a.response.type = "accept" => v.executed[1] = a.tool_input
                     /\ a.response.type = "edit"
                        => v.executed[1] = Val(a.response.args)["args"]
               /\ a.response.type \notin {"accept", "edit", "reject", "response"}
                  => v.executed = <<>> /\ ~IsNone(v.raised)

\* a response decision with a message: the message came back, no tool ran
C34_Witness ==
    \E r \in Reqs :
        /\ Called(r, "call_tool_with_interrupt")
        /\ Val(rq[r].args).response = [type |-> "response", args |-> Some(Str("msg"))]
        /\ Val(result[r]).value.executed = <<>>
        /\ Val(result[r]).value.tool_response = Some(Str("msg"))

\* C35: once create_session(user, session) has returned and the record has
\* not expired or been deleted since, the session id is in the user's index
\* set, whatever a concurrent cleanup of the same user does; so the listings
\* never leave out a live session.  (A live record with no create_session
\* between its SET and its SADD was written by a call that has returned.)
C35_LiveSessionIndexed ==
    \A k \in Keys :
        /\ KeyExists(store, k)
        /\ ~\E r \in Reqs : pc[r] = "create_sadd" /\ ReqKey(r) = k
        => k[2] \in index[k[1]]

\* C36: for one interrupted round of a session at most one resume request
\* reaches the AgentRuntime: of two overlapping resume requests for the same
\* interrupted session one is turned away with 400, because the other has
\* already moved the status to running.  So two resume requests for one
\* session are never both past the status test and before their
\* AgentRuntime call.
C36_PastStatusTest(r) ==
    /\ rq[r].op = "resume"
    /\ pc[r] \in {"resume_running_read", "resume_running_write", "resume_call"}
C36_OneResumePerRound ==
    \A r1, r2 \in Reqs :
        r1 # r2 /\ ReqKey(r1) = ReqKey(r2)
        => ~(C36_PastStatusTest(r1) /\ C36_PastStatusTest(r2))

\* C37: when the record expires or is deleted between the existence test
\* and the record fetch of a resume request or of a status query, the
\* request ends in the not-found answer (404 for resume, status not_found
\* for the status query), never in a failure that no handler catches.
C37_NoUnhandledFailure ==
    \A r \in Reqs :
        pc[r] = "done" /\ rq[r].op \in {"resume", "status"}
        => Val(result[r]).kind # "Unhandled"

\* C38: a record that was deleted or has expired while its AgentRuntime
\* call was in flight is not written again by the completion write or by
\* the error write: the request whose call has returned and finds no record
\* returns its outcome to the caller, and the record and the user's index
\* set are left without the session.
C38_FindsNoRecord(r) ==
    /\ Steps(r)
    /\ pc[r] \in {"result_exists", "error_read"}
    /\ loc[r].called = 1
    /\ ~KeyExists(store, ReqKey(r))
C38_OutcomeReturned(r) ==
    /\ pc'[r] = "done"
    /\ result'[r] = Some(AgentReply(Val(loc[r].response)))
    /\ ~KeyExists(store', ReqKey(r))
C38_NotRecreated ==
    [][\A r \in Reqs :
          C38_FindsNoRecord(r)
          => /\ C38_OutcomeReturned(r)
             /\ rq[r].session_id \notin index'[rq[r].user_id]]_vars

\* C38 with the index as the code leaves it: neither path adds the session
\* to the index set; the completion path also removes it (its existence
\* test reconciles the set), the error path leaves an expired id to the
\* next reconciliation.
C38_NotRecreatedIndexLazy ==
    [][\A r \in Reqs :
          C38_FindsNoRecord(r)
          => /\ C38_OutcomeReturned(r)
             /\ index'[rq[r].user_id] \subseteq index[rq[r].user_id]
             /\ pc[r] = "result_exists"
                => rq[r].session_id \notin index'[rq[r].user_id]]_vars

\* a request has returned the outcome of its AgentRuntime call, and there
\* is neither a record nor an index entry of its session
C38_Witness ==
    \E r \in Reqs :
        /\ pc[r] = "done"
        /\ rq[r].op \in {"invoke", "resume"}
        /\ loc[r].called = 1
        /\ result[r] = Some(AgentReply(Val(loc[r].response)))
        /\ ~KeyExists(store, ReqKey(r))
        /\ rq[r].session_id \notin index[rq[r].user_id]

\* C39: an AgentRuntime outcome whose interrupt marker is present with an
\* empty list is never recorded as interrupted or completed: it is
\* classified as error with a message, and the completion write persists
\* status error; so a record with status interrupted always carries at
\* least one pending interrupt.
C39_EmptyMarker(r) ==
    /\ ~IsNone(loc[r].outcome)
    /\ Val(loc[r].outcome).kind = "interrupt"
    /\ Val(loc[r].outcome).interrupts = <<>>
C39_ClassifiedAsError ==
    \A r \in Reqs :
        C39_EmptyMarker(r)
        => /\ Val(loc[r].response).status = "error"
           /\ ~IsNone(Val(loc[r].response).message)
           /\ pc[r] = "done" => result[r] = Some(AgentReply(Val(loc[r].response)))
C39_PersistedAsError ==
    \A r \in Reqs :
        C39_EmptyMarker(r) /\ pc[r] = "result_write" /\ Steps(r)
        => /\ Val(store'[ReqKey(r)]).status = "error"
           /\ Val(store'[ReqKey(r)]).last_response = loc[r].response
C39_InterruptedHasPending ==
    \A k \in Keys :
        KeyExists(store, k) /\ Rec(k).status = "interrupted"
        => /\ ~IsNone(Rec(k).last_response)
           /\ Val(Rec(k).last_response).status = "interrupted"
           /\ ~IsNone(Val(Rec(k).last_response).interrupt_data)
           /\ Len(Val(Val(Rec(k).last_response).interrupt_data).interrupts) >= 1
C39_EmptyInterruptIsError ==
    /\ [](C39_ClassifiedAsError /\ C39_InterruptedHasPending)
    /\ [][C39_PersistedAsError]_vars

\* a request got the empty marker and its completion write is in the store
C39_Witness ==
    \E r \in Reqs :
        /\ pc[r] = "done"
        /\ C39_EmptyMarker(r)
        /\ KeyExists(store, ReqKey(r))
        /\ Rec(ReqKey(r)).status = "error"
        /\ Rec(ReqKey(r)).last_response = loc[r].response

\* C40: in the client's wait loop for a running session, when one of the 30
\* polls, the last one included, sees a status other than running, the
\* client takes the status-changed path and not the timeout path; the
\* timeout path is taken only when all 30 polls saw running.  (The loop
\* ends at the first poll that does not see running, so the polls all saw
\* running exactly when the last one did.)
C40_TimeoutOnlyWhenAllRunning ==
    \A r \in Reqs :
        rq[r].op = "client" /\ loc[r].timed_out
        => loc[r].current_status = Some("running")

====
